---------------------------- MODULE Spec2Model ----------------------------
(***************************************************************************)
(* A model of the macro engine of the preprocessor                         *)
(* (source/parsing/Preprocessor_macros.cpp) and of the interval map's      *)
(* path navigation and node distribution (source/util/IntervalMap.cpp).    *)
(*                                                                         *)
(* Raw text is a sequence of one-character strings, so that token          *)
(* concatenation and re-lexing are computed on characters.                 *)
(***************************************************************************)
EXTENDS Integers, Sequences, FiniteSets, TLC

(***************************************************************************)
(* Bounds of the model.                                                    *)
(***************************************************************************)
\* Nesting depth of expandReplacementList calls the model follows.
MaxDepth == 6
\* Iterations of the fixpoint loop of handleTopLevelMacro the model follows.
MaxIter == 4
\* `define directives one run processes.
MaxDefines == 3
\* `undef directives one run processes.
MaxUndefs == 1

(***************************************************************************)
(* Sequence helpers.                                                       *)
(***************************************************************************)
Last(s) == s[Len(s)]

Front(s) == SubSeq(s, 1, Len(s) - 1)

RECURSIVE Flatten(_)
Flatten(ss) == IF ss = <<>> THEN <<>> ELSE Head(ss) \o Flatten(Tail(ss))

(***************************************************************************)
(* Tokens and trivia.                                                      *)
(***************************************************************************)
Trivia(k, t) == [kind |-> k, text |-> t]

WS == Trivia("Whitespace", <<" ">>)

EOL == Trivia("EndOfLine", <<"\n">>)

\* Token(alloc, kind, trivia, rawText, location[, directive kind])
Tok(k, tr, t, d) == [kind |-> k, trivia |-> tr, text |-> t, dk |-> d]

\* Token(): the null token, which converts to false.
NullTok == Tok("Null", <<>>, <<>>, "None")

IsTok(t) == t.kind # "Null"

EofTok == Tok("EndOfFile", <<>>, <<>>, "None")

withTrivia(t, tr) == [t EXCEPT !.trivia = tr]

\* Token::isOnSameLine: no end-of-line in the leading trivia.
isOnSameLine(t) ==
    \A i \in 1..Len(t.trivia) :
        t.trivia[i].kind \notin {"EndOfLine", "LineContinuation"}

(***************************************************************************)
(* The lexer, as far as the macro engine calls into it.                    *)
(***************************************************************************)
\* The characters a string literal of this notation cannot hold.
Grave == "grave"

DQuote == "dquote"

Backslash == "backslash"

Letters == {"A", "B", "C", "D", "E", "F", "G", "K", "M", "P", "R", "U", "X",
            "Y", "a", "b", "x", "y", "z", "d", "e", "f", "i", "n", "_", "s",
            "l", "g", "L", "I", "N"}

Digits == {"0", "1", "2", "3"}

IdentChars == Letters \cup Digits

PunctKind(c) ==
    CASE c = "(" -> "OpenParenthesis"
      [] c = ")" -> "CloseParenthesis"
      [] c = "[" -> "OpenBracket"
      [] c = "]" -> "CloseBracket"
      [] c = "{" -> "OpenBrace"
      [] c = "}" -> "CloseBrace"
      [] c = "," -> "Comma"
      [] c = "/" -> "Slash"
      [] c = "*" -> "Star"
      [] c = "+" -> "Plus"
      [] c = "=" -> "Equals"
      [] OTHER -> "Unknown"

\* The number of leading characters of t, from position i on, that are in S.
RECURSIVE RunLen(_, _, _)
RunLen(t, i, S) ==
    IF i <= Len(t) /\ t[i] \in S THEN 1 + RunLen(t, i + 1, S) ELSE 0

\* Position of the first closing quote of t after position 1, or 0.
RECURSIVE QuoteEnd(_, _)
QuoteEnd(t, i) ==
    IF i > Len(t) THEN 0 ELSE IF t[i] = DQuote THEN i ELSE QuoteEnd(t, i + 1)

DefineText == <<"d", "e", "f", "i", "n", "e">>

getDirectiveKind(name) ==
    IF name = <<>> THEN "Unknown"
    ELSE IF name = DefineText THEN "DefineDirective"
    ELSE "MacroUsage"

\* Lexer::lex on non-empty text: the kind, directive kind and length of the
\* first token.  A comment start lexes as trivia and leaves no token text.
LexFirst(t) ==
    LET c == t[1]
        c2 == IF Len(t) >= 2 THEN t[2] ELSE ""
    IN  IF c = Grave THEN
            IF c2 = DQuote THEN [kind |-> "MacroQuote", dk |-> "None", len |-> 2]
            ELSE IF c2 = Grave THEN [kind |-> "MacroPaste", dk |-> "None", len |-> 2]
            ELSE LET n == RunLen(t, 2, IdentChars)
                 IN  [kind |-> "Directive",
                      dk |-> getDirectiveKind(SubSeq(t, 2, 1 + n)),
                      len |-> 1 + n]
        ELSE IF c \in Letters THEN
            [kind |-> "Identifier", dk |-> "None", len |-> RunLen(t, 1, IdentChars)]
        ELSE IF c \in Digits THEN
            [kind |-> "IntegerLiteral", dk |-> "None", len |-> RunLen(t, 1, Digits)]
        ELSE IF c = Backslash THEN
            \* escaped identifier: runs up to the next whitespace
            IF Len(t) = 1 THEN [kind |-> "Unknown", dk |-> "None", len |-> 1]
            ELSE [kind |-> "Identifier", dk |-> "None", len |-> Len(t)]
        ELSE IF c = DQuote THEN
            LET q == QuoteEnd(t, 2)
            IN  [kind |-> "StringLiteral", dk |-> "None",
                 len |-> IF q = 0 THEN Len(t) ELSE q]
        ELSE IF c = "/" /\ c2 \in {"*", "/"} THEN
            [kind |-> "EndOfFile", dk |-> "None", len |-> 0]
        ELSE [kind |-> PunctKind(c), dk |-> "None", len |-> 1]

\* Lexer::lex over the whole of text t: its tokens, without trivia.
RECURSIVE LexAll(_)
LexAll(t) ==
    IF t = <<>> THEN <<>>
    ELSE LET f == LexFirst(t)
         IN  IF f.len = 0 THEN <<>>
             ELSE <<Tok(f.kind, <<>>, SubSeq(t, 1, f.len), f.dk)>>
                  \o LexAll(SubSeq(t, f.len + 1, Len(t)))

\* Lexer::concatenateTokens: the single token the two raw texts lex to when
\* joined, with the left token s trivia; the null token when they do not
\* lex to exactly one token.
concatenateTokens(left, right) ==
    IF left.text = <<>> \/ right.text = <<>> THEN NullTok
    ELSE LET combined == left.text \o right.text
             f == LexFirst(combined)
         IN  IF f.kind \in {"Unknown", "EndOfFile"} \/ f.len # Len(combined)
             THEN NullTok
             ELSE Tok(f.kind, left.trivia, combined, f.dk)

\* The text a token list spells: each token's trivia and raw text.
RECURSIVE Spell(_)
Spell(toks) ==
    IF toks = <<>> THEN <<>>
    ELSE Flatten([i \in 1..Len(Head(toks).trivia) |-> Head(toks).trivia[i].text])
         \o Head(toks).text \o Spell(Tail(toks))

\* Lexer::stringify: a string literal spelling the tokens, under the opening
\* quote's trivia.  The first token's own trivia is not part of the string.
stringify(trivia, toks) ==
    Tok("StringLiteral", trivia,
        <<DQuote>> \o (IF toks = <<>> THEN <<>>
                     ELSE Head(toks).text \o Spell(Tail(toks))) \o <<DQuote>>,
        "None")

\* Lexer::commentify: a block comment trivia spelling the tokens.
commentify(toks) == Trivia("BlockComment", Spell(toks))

\* Lexer::splitTokens: the tokens that the source token's raw text lexes to
\* from the given offset (0-based) on.
splitTokens(t, offset) == LexAll(SubSeq(t.text, offset + 1, Len(t.text)))

\* SyntaxFacts::getDelimCloseKind
getDelimCloseKind(k) ==
    CASE k = "OpenParenthesis" -> "CloseParenthesis"
      [] k = "OpenBracket" -> "CloseBracket"
      [] k = "OpenBrace" -> "CloseBrace"
      [] OTHER -> "Unknown"

\* text.find(pat) for a two-character pattern: the 0-based offset, or -1.
RECURSIVE Find2(_, _, _, _)
Find2(t, a, b, i) ==
    IF i + 1 > Len(t) THEN -1
    ELSE IF t[i] = a /\ t[i + 1] = b THEN i - 1
    ELSE Find2(t, a, b, i + 1)


(***************************************************************************)
(* The state of the preprocessor.                                          *)
(***************************************************************************)
VARIABLES
    macros,             \* the macro table: name -> MacroDef
    stream,             \* the raw tokens the lexer still has to deliver
    expandedTokens,     \* the tokens of the last top-level expansion
    currentMacroToken,  \* index into expandedTokens of the next token, 0: unset
    diagnostics,        \* the diagnostic codes issued, in order
    output,             \* the tokens handed to the consumer
    defines,            \* the number of `define directives processed
    undefs,             \* the number of `undef directives processed
    last,               \* what the last operation was and how it ended
    buffer,             \* the tokens handed to applyMacroOps on its own
    sourceManager,      \* the expansion buffers of the source manager
    chain               \* the locations the lookup of a location passed

ppVars == <<macros, stream, expandedTokens, currentMacroToken, diagnostics,
            output, defines, undefs, last>>

opsVars == <<buffer>>

locVars == <<sourceManager, chain>>

\* The part of the state that expansion reads and writes as it goes.
World(s, d) == [stream |-> s, diags |-> d]

addDiag(w, code) == [w EXCEPT !.diags = Append(@, code)]

(***************************************************************************)
(* Macro definitions.                                                      *)
(***************************************************************************)
NoTokens == [present |-> FALSE, tokens |-> <<>>]

SomeTokens(toks) == [present |-> TRUE, tokens |-> toks]

\* MacroFormalArgumentSyntax
Formal(nameTok, def) == [name |-> nameTok, defaultValue |-> def]

NoFormals == [present |-> FALSE, args |-> <<>>]

Formals(fs) == [present |-> TRUE, args |-> fs]

\* DefineDirectiveSyntax
DefineSyntax(name, formals, body) ==
    [name |-> name, formalArguments |-> formals, body |-> body]

NoSyntax == [name |-> <<>>, formalArguments |-> NoFormals, body |-> <<>>]

\* MacroDef
MacroDef(syntax, builtIn, intrinsic) ==
    [syntax |-> syntax, builtIn |-> builtIn, intrinsic |-> intrinsic]

NoMacro == MacroDef(NoSyntax, FALSE, "None")

isIntrinsic(m) == m.intrinsic # "None"

valid(m) == m.syntax # NoSyntax \/ isIntrinsic(m)

needsArgs(m) == m.syntax # NoSyntax /\ m.syntax.formalArguments.present

\* The identity of a definition, as alreadyExpanded holds it: one
\* definition per name is live during an expansion; <<>> is the null
\* pointer of an intrinsic.
SyntaxPtr(m) == m.syntax.name

\* Token::valueText: an identifier's text without its escaping backslash.
valueText(t) ==
    IF t.kind = "Identifier" /\ t.text # <<>> /\ t.text[1] = Backslash
    THEN Tail(t.text) ELSE t.text

\* std::to_string of an int.
Digit(d) == <<"0", "1", "2", "3", "4", "5", "6", "7", "8", "9">>[d + 1]

RECURSIVE to_string(_)
to_string(value) ==
    IF value < 0 THEN <<"-">> \o to_string(-value)
    ELSE IF value < 10 THEN <<Digit(value)>>
    ELSE to_string(value \div 10) \o <<Digit(value % 10)>>

\* A mutation of createBuiltInMacro that leaves builtIn unset.
createBuiltInMacro_NotBuiltIn(table, name, value, valueStr) ==
    LET str == IF valueStr = <<>> THEN to_string(value) ELSE valueStr
        body == <<Tok("IntegerLiteral", <<>>, str, "None")>>
    IN  [n \in DOMAIN table \cup {name} |->
            IF n = name THEN MacroDef(DefineSyntax(name, NoFormals, body),
                                      FALSE, "None")
            ELSE table[n]]

\* Preprocessor::createBuiltInMacro: the table with name defined as the
\* integer literal of the value, without formal arguments, builtIn set.
createBuiltInMacro(table, name, value, valueStr) ==
    LET str == IF valueStr = <<>> THEN to_string(value) ELSE valueStr
        body == <<Tok("IntegerLiteral", <<>>, str, "None")>>
    IN  [n \in DOMAIN table \cup {name} |->
            IF n = name THEN MacroDef(DefineSyntax(name, NoFormals, body),
                                      TRUE, "None")
            ELSE table[n]]

findMacro(directive) ==
    LET n1 == Tail(valueText(directive))
        name == IF n1 # <<>> /\ n1[1] = Backslash THEN Tail(n1) ELSE n1
    IN  IF name \in DOMAIN macros THEN macros[name] ELSE NoMacro

\* A mutation of isSameToken that does not look at the trivia.
isSameToken_NoTrivia(left, right) ==
    left.kind = right.kind /\ left.text = right.text

RECURSIVE SameTriviaFrom(_, _, _)
SameTriviaFrom(lt, rt, i) ==
    IF i > Len(lt) THEN TRUE
    ELSE IF lt[i].kind # rt[i].kind \/ lt[i].text # rt[i].text THEN FALSE
    ELSE SameTriviaFrom(lt, rt, i + 1)

isSameToken(left, right) ==
    IF left.kind # right.kind \/ left.text # right.text THEN FALSE
    ELSE IF Len(left.trivia) # Len(right.trivia) THEN FALSE
    ELSE SameTriviaFrom(left.trivia, right.trivia, 1)

RECURSIVE SameTokensFrom(_, _, _)
SameTokensFrom(left, right, i) ==
    IF i > Len(left) THEN TRUE
    ELSE IF ~isSameToken(left[i], right[i]) THEN FALSE
    ELSE SameTokensFrom(left, right, i + 1)

isSameTokenList(left, right) ==
    IF Len(left) # Len(right) THEN FALSE
    ELSE SameTokensFrom(left, right, 1)

\* The loop of isSameMacro over the formal arguments.
RECURSIVE SameFormalsFrom(_, _, _)
SameFormalsFrom(la, ra, i) ==
    IF i > Len(la) THEN TRUE
    ELSE IF ~isSameToken(la[i].name, ra[i].name) THEN FALSE
    ELSE IF la[i].defaultValue.present # ra[i].defaultValue.present THEN FALSE
    ELSE IF la[i].defaultValue.present
            /\ ~isSameTokenList(la[i].defaultValue.tokens,
                                ra[i].defaultValue.tokens) THEN FALSE
    ELSE SameFormalsFrom(la, ra, i + 1)

\* Preprocessor::isSameMacro; the names are assumed to match already.
isSameMacro(left, right) ==
    IF left.formalArguments.present # right.formalArguments.present THEN FALSE
    ELSE IF left.formalArguments.present
            /\ Len(left.formalArguments.args) # Len(right.formalArguments.args)
    THEN FALSE
    ELSE IF left.formalArguments.present
            /\ ~SameFormalsFrom(left.formalArguments.args,
                                right.formalArguments.args, 1)
    THEN FALSE
    ELSE isSameTokenList(left.body, right.body)

(***************************************************************************)
(* MacroParser: a replacement-list buffer with the preprocessor's stream   *)
(* behind it.                                                              *)
(***************************************************************************)
Parser(buf, w) ==
    [buf |-> buf, idx |-> 1, stream |-> w.stream, diags |-> w.diags]

ParserWorld(p) == World(p.stream, p.diags)

WithWorld(p, w) == [p EXCEPT !.stream = w.stream, !.diags = w.diags]

\* Preprocessor::peek
pp_peek(s) == IF s = <<>> THEN EofTok ELSE Head(s)

\* Preprocessor::consume
pp_consume(s) == IF s = <<>> THEN <<>> ELSE Tail(s)

\* Token::createExpected: a diagnostic and a missing token of the kind.
MissingTok(kind) == Tok(kind, <<>>, <<>>, "None")

\* A mutation of next() that goes on to the source behind the buffer.
MacroParser_next_Source(p) ==
    IF p.idx <= Len(p.buf)
    THEN [tok |-> p.buf[p.idx], p |-> [p EXCEPT !.idx = @ + 1]]
    ELSE IF p.stream = <<>> THEN [tok |-> NullTok, p |-> p]
    ELSE [tok |-> pp_peek(p.stream), p |-> [p EXCEPT !.stream = pp_consume(@)]]

MacroParser_next(p) ==
    IF p.idx <= Len(p.buf)
    THEN [tok |-> p.buf[p.idx], p |-> [p EXCEPT !.idx = @ + 1]]
    ELSE [tok |-> NullTok, p |-> p]

MacroParser_peek(p) ==
    IF p.idx <= Len(p.buf) THEN p.buf[p.idx] ELSE pp_peek(p.stream)

MacroParser_consume(p) ==
    LET result == MacroParser_next(p)
    IN  IF IsTok(result.tok) THEN result
        ELSE [tok |-> pp_peek(p.stream),
              p |-> [p EXCEPT !.stream = pp_consume(@)]]

MacroParser_expect(p, kind) ==
    IF p.idx > Len(p.buf) THEN
        IF pp_peek(p.stream).kind = kind
        THEN [tok |-> pp_peek(p.stream), p |-> [p EXCEPT !.stream = pp_consume(@)]]
        ELSE [tok |-> MissingTok(kind),
              p |-> [p EXCEPT !.diags = Append(@, "ExpectedToken")]]
    ELSE IF p.buf[p.idx].kind # kind THEN
        [tok |-> MissingTok(kind),
         p |-> [p EXCEPT !.diags = Append(@, "ExpectedToken")]]
    ELSE MacroParser_next(p)

\* A mutation of parseTokenListLoop that ends the list at a separator inside
\* delimiters too.
RECURSIVE parseTokenListLoop_Flat(_, _, _, _)
parseTokenListLoop_Flat(p, tokens, delimPairStack, allowNewlines) ==
    LET pk == MacroParser_peek(p)
        kind == pk.kind
    IN  IF kind = "EndOfFile" \/ (~allowNewlines /\ ~isOnSameLine(pk)) THEN
            [tokens |-> tokens,
             p |-> IF delimPairStack # <<>>
                   THEN [p EXCEPT !.diags = Append(@, "UnbalancedMacroArgDims")]
                   ELSE p,
             expected |-> IF delimPairStack # <<>>
                          THEN <<Last(delimPairStack)>> ELSE <<>>]
        ELSE IF kind \in {"Comma", "CloseParenthesis"} THEN
            [tokens |-> tokens, p |-> p, expected |-> <<>>]
        ELSE
            LET stack1 == IF delimPairStack # <<>> /\ Last(delimPairStack) = kind
                          THEN Front(delimPairStack) ELSE delimPairStack
                c == MacroParser_consume(p)
                closeKind == getDelimCloseKind(kind)
                stack2 == IF closeKind # "Unknown"
                          THEN Append(stack1, closeKind) ELSE stack1
            IN  parseTokenListLoop_Flat(c.p, Append(tokens, c.tok), stack2,
                                        allowNewlines)

\* expected: the closer the UnbalancedMacroArgDims diagnostic names, if it
\* was issued.
RECURSIVE parseTokenListLoop(_, _, _, _)
parseTokenListLoop(p, tokens, delimPairStack, allowNewlines) ==
    LET pk == MacroParser_peek(p)
        kind == pk.kind
    IN  IF kind = "EndOfFile" \/ (~allowNewlines /\ ~isOnSameLine(pk)) THEN
            [tokens |-> tokens,
             p |-> IF delimPairStack # <<>>
                   THEN [p EXCEPT !.diags = Append(@, "UnbalancedMacroArgDims")]
                   ELSE p,
             expected |-> IF delimPairStack # <<>>
                          THEN <<Last(delimPairStack)>> ELSE <<>>]
        ELSE IF delimPairStack = <<>> /\ kind \in {"Comma", "CloseParenthesis"} THEN
            [tokens |-> tokens, p |-> p, expected |-> <<>>]
        ELSE
            LET stack1 == IF delimPairStack # <<>> /\ Last(delimPairStack) = kind
                          THEN Front(delimPairStack) ELSE delimPairStack
                c == MacroParser_consume(p)
                closeKind == getDelimCloseKind(kind)
                stack2 == IF closeKind # "Unknown"
                          THEN Append(stack1, closeKind) ELSE stack1
            IN  parseTokenListLoop(c.p, Append(tokens, c.tok), stack2, allowNewlines)

parseTokenList(p, allowNewlines) == parseTokenListLoop(p, <<>>, <<>>, allowNewlines)

\* parseArgumentList with parseActualArgument as the item parser.
RECURSIVE parseArgumentList(_, _)
parseArgumentList(p, results) ==
    LET item == parseTokenList(p, TRUE)
        results1 == Append(results, item.tokens)
    IN  IF MacroParser_peek(item.p).kind = "Comma"
        THEN parseArgumentList(MacroParser_consume(item.p).p, results1)
        ELSE [args |-> results1, p |-> item.p]

\* The null MacroActualArgumentListSyntax*.
NoArgs == [present |-> FALSE, args |-> <<>>, closeParen |-> NullTok]

parseActualArgumentList(p, prevToken) ==
    IF MacroParser_peek(p).kind # "OpenParenthesis" THEN
        [list |-> NoArgs, p |-> [p EXCEPT !.diags = Append(@, "ExpectedMacroArgs")]]
    ELSE
        LET open == MacroParser_consume(p)
            items == parseArgumentList(open.p, <<>>)
            close == MacroParser_expect(items.p, "CloseParenthesis")
        IN  [list |-> [present |-> TRUE, args |-> items.args, closeParen |-> close.tok],
             p |-> close.p]


(***************************************************************************)
(* MacroExpansion: the destination buffer of one expansion.                *)
(***************************************************************************)
MacroExpansion(dest, usageSite, isTopLevel) ==
    [dest |-> dest, usageSite |-> usageSite, isTopLevel |-> isTopLevel,
     any |-> FALSE]

MacroExpansion_append(e, token, allowLineContinuation) ==
    LET t1 == IF ~e.any
              THEN withTrivia(token, IF e.isTopLevel THEN <<>> ELSE e.usageSite.trivia)
              ELSE token
        t2 == IF t1.kind = "LineContinuation" /\ ~allowLineContinuation
              THEN Tok("EmptyMacroArgument",
                       Append(t1.trivia, Trivia("EndOfLine", Tail(t1.text))),
                       <<>>, "None")
              ELSE t1
    IN  [e EXCEPT !.dest = Append(@, t2), !.any = TRUE]

RECURSIVE AppendBody(_, _)
AppendBody(e, body) ==
    IF body = <<>> THEN e
    ELSE AppendBody(MacroExpansion_append(e, Head(body), FALSE), Tail(body))

\* The text the source manager gives for `__FILE__ and `__LINE__.
FileNameText == <<DQuote, "f", DQuote>>

LineNumberText == <<"1">>

expandIntrinsic(intrinsic, e) ==
    IF intrinsic = "File"
    THEN MacroExpansion_append(e, Tok("StringLiteral", <<>>, FileNameText, "None"), FALSE)
    ELSE MacroExpansion_append(e, Tok("IntegerLiteral", <<>>, LineNumberText, "None"), FALSE)

\* LexerFacts::isKeyword
isKeyword(kind) == kind \in {"ModuleKeyword", "BeginKeyword"}

(***************************************************************************)
(* expandMacro: the argument map.                                          *)
(***************************************************************************)
ArgTokens(toks) == [tokens |-> toks, isExpanded |-> FALSE]

\* argumentMap.find: the index of the entry of that name, or 0.
RECURSIVE ArgFind(_, _, _)
ArgFind(argumentMap, text, i) ==
    IF i > Len(argumentMap) THEN 0
    ELSE IF argumentMap[i].name = text THEN i
    ELSE ArgFind(argumentMap, text, i + 1)

\* argumentMap.emplace: the first entry of a name stays.
ArgEmplace(argumentMap, name, toks) ==
    IF ArgFind(argumentMap, name, 1) # 0 THEN argumentMap
    ELSE Append(argumentMap, [name |-> name, arg |-> ArgTokens(toks)])

\* A mutation of MatchArgs that takes the default only for a missing actual.
RECURSIVE MatchArgs_Given(_, _, _, _)
MatchArgs_Given(formalList, actualList, i, argumentMap) ==
    IF i > Len(formalList) THEN [ok |-> TRUE, map |-> argumentMap]
    ELSE
        LET formal == formalList[i]
            name == valueText(formal.name)
            have == Len(actualList) >= i
            tokenList ==
                IF have THEN actualList[i] ELSE formal.defaultValue.tokens
        IN  IF ~have /\ ~formal.defaultValue.present
            THEN [ok |-> FALSE, map |-> argumentMap]
            ELSE MatchArgs_Given(formalList, actualList, i + 1,
                                 IF name # <<>>
                                 THEN ArgEmplace(argumentMap, name, tokenList)
                                 ELSE argumentMap)

\* The loop matching actual arguments with formal parameters.
RECURSIVE MatchArgs(_, _, _, _)
MatchArgs(formalList, actualList, i, argumentMap) ==
    IF i > Len(formalList) THEN [ok |-> TRUE, map |-> argumentMap]
    ELSE
        LET formal == formalList[i]
            name == valueText(formal.name)
            have == Len(actualList) >= i
            tokenList ==
                IF have THEN
                    IF actualList[i] = <<>> /\ formal.defaultValue.present
                    THEN formal.defaultValue.tokens ELSE actualList[i]
                ELSE formal.defaultValue.tokens
        IN  IF ~have /\ ~formal.defaultValue.present
            THEN [ok |-> FALSE, map |-> argumentMap]
            ELSE MatchArgs(formalList, actualList, i + 1,
                           IF name # <<>> THEN ArgEmplace(argumentMap, name, tokenList)
                           ELSE argumentMap)

\* A mutation of appendBody that appends the token as it is.
AppendDefineBody_Plain(e, token) == MacroExpansion_append(e, token, FALSE)

\* appendBody of the in-define branch: a line continuation before each
\* argument token that starts a new line.
AppendDefineBody(e, token) ==
    IF ~isOnSameLine(token) THEN
        MacroExpansion_append(
            MacroExpansion_append(
                e, Tok("LineContinuation", token.trivia, <<Backslash>>, "None"), TRUE),
            withTrivia(token, <<>>), FALSE)
    ELSE MacroExpansion_append(e, token, FALSE)

RECURSIVE AppendArg(_, _, _)
AppendArg(e, toks, inDefineDirective) ==
    IF toks = <<>> THEN e
    ELSE AppendArg(IF inDefineDirective THEN AppendDefineBody(e, Head(toks))
                   ELSE MacroExpansion_append(e, Head(toks), FALSE),
                   Tail(toks), inDefineDirective)


(***************************************************************************)
(* expandMacro and expandReplacementList.                                  *)
(*                                                                         *)
(* Both are recursive in the code.  `stack' holds the configurations       *)
(* (tokens, alreadyExpanded, stream) of the expandReplacementList calls    *)
(* that are active: a call is a function of its configuration and of the   *)
(* macro table, so a call whose configuration is already active recurses   *)
(* without end.  Such a call ends here with div = "recursion"; a call      *)
(* nested deeper than MaxDepth ends with div = "depth".                    *)
(***************************************************************************)
RECURSIVE expandReplacementList(_, _, _, _)

\* pre: the arguments that were run through expandReplacementList so far,
\* each with its tokens and the state of the preprocessor before the call.
HandleState(e, map, w) ==
    [e |-> e, map |-> map, inDefineDirective |-> FALSE, w |-> w,
     ok |-> TRUE, div |-> "no", pre |-> <<>>]

\* handleToken, the argument found and expanded: its tokens are appended in
\* place of the formal; a directive character before the formal is glued to
\* the first of them (combined).
ArgInsert(hs, token, toks, first, combined) ==
    IF token.kind = "Directive" /\ ~IsTok(combined) THEN
        [hs EXCEPT !.w = addDiag(@, "MisplacedDirectiveChar"),
                   !.e = AppendArg(@, <<first>> \o Tail(toks),
                                   hs.inDefineDirective)]
    ELSE IF token.kind = "Directive" THEN
        [hs EXCEPT !.e = AppendArg(@, <<combined>> \o Tail(toks),
                                   hs.inDefineDirective)]
    ELSE [hs EXCEPT !.e = AppendArg(@, <<first>> \o Tail(toks),
                                    hs.inDefineDirective)]

\* A mutation of ArgExpanded that does not note that the argument was
\* expanded.
ArgExpanded_Again(hs, token, it, pre) ==
    IF ~pre.ok THEN [hs EXCEPT !.ok = FALSE, !.div = pre.div, !.w = pre.w]
    ELSE IF pre.tokens = <<>> THEN
        [hs EXCEPT
            !.w = pre.w,
            !.e = MacroExpansion_append(
                      @, Tok("EmptyMacroArgument", token.trivia, <<>>, "None"),
                      FALSE)]
    ELSE
        ArgInsert([hs EXCEPT !.w = pre.w],
                  token, pre.tokens, withTrivia(pre.tokens[1], token.trivia),
                  concatenateTokens(
                      Tok("Unknown", token.trivia, <<Grave>>, "None"),
                      withTrivia(pre.tokens[1], token.trivia)))

\* handleToken, pre: the argument map[it] after its expansion.
ArgExpanded(hs, token, it, pre) ==
    IF ~pre.ok THEN [hs EXCEPT !.ok = FALSE, !.div = pre.div, !.w = pre.w]
    ELSE IF pre.tokens = <<>> THEN
        [hs EXCEPT
            !.map[it].arg = [tokens |-> pre.tokens, isExpanded |-> TRUE],
            !.w = pre.w,
            !.e = MacroExpansion_append(
                      @, Tok("EmptyMacroArgument", token.trivia, <<>>, "None"),
                      FALSE)]
    ELSE
        ArgInsert([hs EXCEPT
                      !.map[it].arg = [tokens |-> pre.tokens, isExpanded |-> TRUE],
                      !.w = pre.w],
                  token, pre.tokens, withTrivia(pre.tokens[1], token.trivia),
                  concatenateTokens(
                      Tok("Unknown", token.trivia, <<Grave>>, "None"),
                      withTrivia(pre.tokens[1], token.trivia)))

\* The argument map[it] is about to be expanded if it was not yet.
ArgNoted(hs, it) ==
    IF hs.map[it].arg.isExpanded THEN hs
    ELSE [hs EXCEPT !.pre = Append(@, [name |-> hs.map[it].name,
                                       tokens |-> hs.map[it].arg.tokens,
                                       w |-> hs.w])]

\* handleToken, it: the place of the formal in the argument map, or 0.
ArgLookup(hs, token, it, stack) ==
    IF it = 0 THEN [hs EXCEPT !.e = MacroExpansion_append(@, token, FALSE)]
    ELSE ArgExpanded(ArgNoted(hs, it), token, it,
             IF ~hs.map[it].arg.isExpanded
             THEN expandReplacementList(hs.map[it].arg.tokens, {}, hs.w, stack)
             ELSE [ok |-> TRUE, div |-> "no", tokens |-> hs.map[it].arg.tokens,
                   w |-> hs.w, alreadyExpanded |-> {},
                   expandedSomething |-> FALSE])

\* The lambda handleToken of expandMacro.
handleToken(hs, token, stack) ==
    LET hs1 == [hs EXCEPT !.inDefineDirective = @ /\ isOnSameLine(token)]
        isDir == token.kind = "Directive" /\ valueText(token) # <<>>
    IN  IF token.kind # "Identifier" /\ ~isKeyword(token.kind)
           /\ token.kind # "Directive" THEN
            [hs1 EXCEPT !.e = MacroExpansion_append(@, token, FALSE)]
        ELSE IF isDir /\ token.dk # "MacroUsage" THEN
            [hs1 EXCEPT !.e = MacroExpansion_append(@, token, FALSE),
                        !.inDefineDirective =
                            IF token.dk = "DefineDirective" THEN TRUE ELSE @]
        ELSE ArgLookup(hs1, token,
                       ArgFind(hs1.map,
                               IF isDir THEN Tail(valueText(token))
                               ELSE valueText(token), 1),
                       stack)

RECURSIVE HandleAll(_, _, _)
HandleAll(hs, toks, stack) ==
    IF toks = <<>> \/ ~hs.ok THEN hs
    ELSE HandleAll(handleToken(hs, Head(toks), stack), Tail(toks), stack)

\* The loop of expandMacro over the body tokens.
RECURSIVE BodyLoop(_, _, _, _)
BodyLoop(hs, body, i, stack) ==
    IF i > Len(body) \/ ~hs.ok THEN hs
    ELSE
        LET token == body[i]
            index == IF token.kind = "Identifier" /\ token.text # <<>>
                        /\ token.text[1] = Backslash
                     THEN Find2(token.text, Grave, Grave, 1) ELSE -1
        IN  IF index >= 0 THEN
                LET first == [token EXCEPT !.text = SubSeq(@, 1, index)]
                    splits == splitTokens(token, index)
                    empty == Tok("EmptyMacroArgument", <<WS>>, <<>>, "None")
                    pieces == <<first>> \o splits
                              \o (IF splits # <<>> THEN <<empty>> ELSE <<>>)
                IN  BodyLoop(HandleAll(hs, pieces, stack), body, i + 1, stack)
            ELSE BodyLoop(handleToken(hs, token, stack), body, i + 1, stack)

\* What expandMacro returns.
ExpandResult(ok, div, e, w) ==
    [ok |-> ok, div |-> div, e |-> e, w |-> w, pre |-> <<>>, map |-> <<>>]

\* expandMacro, after the loop over the body.
ExpandedBody(hs) ==
    [ExpandResult(hs.ok, hs.div, hs.e, hs.w) EXCEPT !.pre = hs.pre,
                                                    !.map = hs.map]

\* ExpandMatched without the check for a missing argument.
ExpandMatched_Unchecked(macro, expansion, w, stack, m) ==
    ExpandedBody(BodyLoop(HandleState(expansion, m.map, w),
                          macro.syntax.body, 1, stack))

\* expandMacro, m: the actual arguments matched with the formal ones.
ExpandMatched(macro, expansion, w, stack, m) ==
    IF ~m.ok THEN
        ExpandResult(FALSE, "no", expansion, addDiag(w, "NotEnoughMacroArgs"))
    ELSE ExpandedBody(BodyLoop(HandleState(expansion, m.map, w),
                               macro.syntax.body, 1, stack))

expandMacro(macro, expansion, actualArgs, w, stack) ==
    IF isIntrinsic(macro) THEN
        ExpandResult(TRUE, "no", expandIntrinsic(macro.intrinsic, expansion), w)
    ELSE IF macro.syntax.body = <<>> THEN ExpandResult(TRUE, "no", expansion, w)
    ELSE IF ~macro.syntax.formalArguments.present THEN
        ExpandResult(TRUE, "no", AppendBody(expansion, macro.syntax.body), w)
    ELSE IF Len(actualArgs.args) > Len(macro.syntax.formalArguments.args) THEN
        ExpandResult(FALSE, "no", expansion,
                     addDiag(w, "TooManyActualMacroArgs"))
    ELSE ExpandMatched(macro, expansion, w, stack,
                       MatchArgs(macro.syntax.formalArguments.args,
                                 actualArgs.args, 1, <<>>))

\* The state of the scan loop of expandReplacementList: the parser over the
\* tokens, outBuffer, expandedSomething and alreadyExpanded.
ScanState(p, outBuffer, expandedSomething, alreadyExpanded, stack) ==
    [p |-> p, outBuffer |-> outBuffer, expandedSomething |-> expandedSomething,
     alreadyExpanded |-> alreadyExpanded, stack |-> stack]

\* A mutation of ReplacementResult that returns whether something was
\* expanded.
ReplacementResult_Expanded(c, ok, div, w, ae) ==
    [ok |-> ok /\ c.expandedSomething, div |-> div, w |-> w,
     alreadyExpanded |-> ae,
     tokens |-> IF ok /\ c.expandedSomething THEN c.outBuffer ELSE c.p.buf,
     expandedSomething |-> c.expandedSomething]

\* What expandReplacementList returns: tokens is its in/out parameter.
ReplacementResult(c, ok, div, w, ae) ==
    [ok |-> ok, div |-> div, w |-> w, alreadyExpanded |-> ae,
     tokens |-> IF ok /\ c.expandedSomething THEN c.outBuffer ELSE c.p.buf,
     expandedSomething |-> c.expandedSomething]

RECURSIVE ReplacementLoop(_)

\* A mutation of ReplaceSpliced that leaves the macro in alreadyExpanded.
ReplaceSpliced_NoErase(c, macro, pa, inner) ==
    IF ~inner.ok THEN
        ReplacementResult(c, FALSE, inner.div, inner.w, inner.alreadyExpanded)
    ELSE ReplacementLoop(
             ScanState(WithWorld(pa.p, inner.w), c.outBuffer \o inner.tokens,
                       TRUE, inner.alreadyExpanded, c.stack))

\* inner: the macro's output after its own nested expansion.
ReplaceSpliced(c, macro, pa, inner) ==
    IF ~inner.ok THEN
        ReplacementResult(c, FALSE, inner.div, inner.w, inner.alreadyExpanded)
    ELSE ReplacementLoop(
             ScanState(WithWorld(pa.p, inner.w), c.outBuffer \o inner.tokens,
                       TRUE, inner.alreadyExpanded \ {SyntaxPtr(macro)},
                       c.stack))

\* em: what expandMacro returned.
ReplaceExpanded(c, macro, pa, em) ==
    IF ~em.ok THEN ReplacementResult(c, FALSE, em.div, em.w, c.alreadyExpanded)
    ELSE ReplaceSpliced(c, macro, pa,
             expandReplacementList(em.e.dest,
                                   c.alreadyExpanded \cup {SyntaxPtr(macro)},
                                   em.w, c.stack))

\* pa: the actual arguments, if the macro takes any.
ReplaceParsed(c, token, macro, pa) ==
    IF needsArgs(macro) /\ ~pa.list.present THEN
        ReplacementResult(c, FALSE, "no", ParserWorld(pa.p), c.alreadyExpanded)
    ELSE ReplaceExpanded(c, macro, pa,
             expandMacro(macro, MacroExpansion(<<>>, token, FALSE), pa.list,
                         ParserWorld(pa.p), c.stack))

\* A mutation of ReplaceUsage that reports a recursive usage, keeps its
\* token and goes on.
ReplaceUsage_GoOn(c, n, macro) ==
    IF ~valid(macro) THEN
        ReplacementLoop([c EXCEPT !.p = n.p, !.outBuffer = Append(@, n.tok)])
    ELSE IF ~isIntrinsic(macro) /\ SyntaxPtr(macro) \in c.alreadyExpanded THEN
        ReplacementLoop([c EXCEPT
            !.p = WithWorld(n.p, addDiag(ParserWorld(n.p), "RecursiveMacro")),
            !.outBuffer = Append(@, n.tok)])
    ELSE ReplaceParsed(c, n.tok, macro,
                       IF needsArgs(macro)
                       THEN parseActualArgumentList(n.p, n.tok)
                       ELSE [list |-> NoArgs, p |-> n.p])

\* n: the token taken and the parser after it; macro: findMacro of it.
ReplaceUsage(c, n, macro) ==
    IF ~valid(macro) THEN
        ReplacementLoop([c EXCEPT !.p = n.p, !.outBuffer = Append(@, n.tok)])
    ELSE IF ~isIntrinsic(macro) /\ SyntaxPtr(macro) \in c.alreadyExpanded THEN
        ReplacementResult(c, FALSE, "no",
                          addDiag(ParserWorld(n.p), "RecursiveMacro"),
                          c.alreadyExpanded)
    ELSE ReplaceParsed(c, n.tok, macro,
                       IF needsArgs(macro)
                       THEN parseActualArgumentList(n.p, n.tok)
                       ELSE [list |-> NoArgs, p |-> n.p])

\* A mutation of ReplaceScan that leaves out the usage of an unknown name.
ReplaceScan_Dropped(c, n) ==
    IF ~IsTok(n.tok) THEN
        ReplacementResult(c, TRUE, "no", ParserWorld(c.p), c.alreadyExpanded)
    ELSE IF n.tok.kind # "Directive" \/ n.tok.dk # "MacroUsage" THEN
        ReplacementLoop([c EXCEPT !.p = n.p, !.outBuffer = Append(@, n.tok)])
    ELSE IF ~valid(findMacro(n.tok)) THEN
        ReplacementLoop([c EXCEPT !.p = n.p, !.expandedSomething = TRUE])
    ELSE ReplaceUsage(c, n, findMacro(n.tok))

ReplaceScan(c, n) ==
    IF ~IsTok(n.tok) THEN
        ReplacementResult(c, TRUE, "no", ParserWorld(c.p), c.alreadyExpanded)
    ELSE IF n.tok.kind # "Directive" \/ n.tok.dk # "MacroUsage" THEN
        ReplacementLoop([c EXCEPT !.p = n.p, !.outBuffer = Append(@, n.tok)])
    ELSE ReplaceUsage(c, n, findMacro(n.tok))

\* The scan loop of expandReplacementList.
ReplacementLoop(c) == ReplaceScan(c, MacroParser_next(c.p))

expandReplacementList(tokens, alreadyExpanded, w, stack) ==
    LET config == <<tokens, alreadyExpanded, w.stream>>
        stop(div) == [ok |-> FALSE, div |-> div, w |-> w, tokens |-> tokens,
                      alreadyExpanded |-> alreadyExpanded,
                      expandedSomething |-> FALSE]
    IN  IF config \in stack THEN stop("recursion")
        ELSE IF Cardinality(stack) >= MaxDepth THEN stop("depth")
        ELSE ReplacementLoop(ScanState(Parser(tokens, w), <<>>, FALSE,
                                       alreadyExpanded, stack \cup {config}))


(***************************************************************************)
(* applyMacroOps: token pasting, stringification, synthetic comments.      *)
(*                                                                         *)
(* dest.back() and dest.pop() on an empty dest are undefined behaviour:    *)
(* the token read is then `garbage', which the caller draws from the       *)
(* values the read can give, and the result is marked ub.                  *)
(***************************************************************************)
RECURSIVE applyMacroOps(_, _, _, _)

OpsState(dest, diags) ==
    [dest |-> dest, diags |-> diags, emptyArgTrivia |-> <<>>,
     stringifyBuffer |-> <<>>, commentBuffer |-> <<>>, stringify |-> NullTok,
     syntheticComment |-> NullTok, anyNewMacros |-> FALSE, didConcat |-> FALSE,
     ub |-> FALSE, made |-> <<>>, steps |-> <<>>]

isMacroUsage(t) == t.kind = "Directive" /\ t.dk = "MacroUsage"

\* dest.back() and dest.pop()
Back(dest, garbage) == IF dest = <<>> THEN garbage ELSE Last(dest)

Pop(dest) == IF dest = <<>> THEN <<>> ELSE Front(dest)

\* made: the tokens that concatenateTokens gave outside of a
\* stringification, each with the branch that called it.
Made(by, token) == [by |-> by, token |-> token]

\* What the switch on token.kind leaves: the state after it, newToken, the
\* number of tokens it skipped (++i) and nextDidConcat.
SwitchResult(st, newToken, skip, nextDidConcat) ==
    [st |-> st, newToken |-> newToken, skip |-> skip,
     nextDidConcat |-> nextDidConcat]

\* MacroPaste inside a stringification: newToken is the concatenation.
PasteInString(st, newToken) ==
    IF IsTok(newToken)
    THEN SwitchResult([st EXCEPT !.stringifyBuffer = Front(@)], newToken, 1, FALSE)
    ELSE SwitchResult(st, NullTok, 0, FALSE)

\* MacroPaste that ends a synthetic block comment: buf is commentBuffer.
CloseComment(st, buf) ==
    SwitchResult([st EXCEPT
                     !.commentBuffer = buf,
                     !.emptyArgTrivia = Append(@ \o st.syntheticComment.trivia,
                                               commentify(buf)),
                     !.syntheticComment = NullTok],
                 NullTok, 1, FALSE)

\* MacroPaste of dest.back() and the next token: newToken is the
\* concatenation.
PasteConcat(st, newToken) ==
    IF IsTok(newToken) THEN
        SwitchResult([st EXCEPT !.dest = Pop(@),
                                !.anyNewMacros = @ \/ isMacroUsage(newToken),
                                !.made = Append(@, Made("paste", newToken))],
                     newToken, 1, TRUE)
    ELSE SwitchResult(st, NullTok, 0, FALSE)

\* A mutation of Paste that leaves the / in dest when it opens a comment.
Paste_SlashKept(st, left, right) ==
    IF left.kind = "Slash" /\ right.kind = "Star" THEN
        SwitchResult([st EXCEPT !.commentBuffer = <<withTrivia(left, <<>>)>>,
                                !.syntheticComment = left],
                     right, 1, FALSE)
    ELSE PasteConcat(st, concatenateTokens(left, right))

\* MacroPaste outside of stringification and comment: left is dest.back().
Paste(st, left, right) ==
    IF left.kind = "Slash" /\ right.kind = "Star" THEN
        SwitchResult([st EXCEPT !.commentBuffer = <<withTrivia(left, <<>>)>>,
                                !.syntheticComment = left,
                                !.dest = Pop(@)],
                     right, 1, FALSE)
    ELSE PasteConcat(st, concatenateTokens(left, right))

\* A mutation of ConcatAgain that reports the macro usage it makes.
ConcatAgain_Reported(st, token, newToken) ==
    IF IsTok(newToken)
    THEN SwitchResult([st EXCEPT !.dest = Pop(@), !.ub = @ \/ st.dest = <<>>,
                                 !.anyNewMacros = @ \/ isMacroUsage(newToken),
                                 !.made = Append(@, Made("again", newToken))],
                      newToken, 0, TRUE)
    ELSE SwitchResult([st EXCEPT !.ub = @ \/ st.dest = <<>>], token, 0, FALSE)

\* The default case after a concatenation: newToken is the concatenation of
\* dest.back() and the token.
ConcatAgain(st, token, newToken) ==
    IF IsTok(newToken)
    THEN SwitchResult([st EXCEPT !.dest = Pop(@), !.ub = @ \/ st.dest = <<>>,
                                 !.made = Append(@, Made("again", newToken))],
                      newToken, 0, TRUE)
    ELSE SwitchResult([st EXCEPT !.ub = @ \/ st.dest = <<>>], token, 0, FALSE)

\* A mutation of IgnorePaste after which the next token is concatenated all
\* the same.
IgnorePaste_Concat(st, token) ==
    SwitchResult([st EXCEPT !.diags = Append(@, "IgnoredMacroPaste")],
                 NullTok, 0, TRUE)

\* A mutation of IgnorePaste that loses the trivia of the paste.
IgnorePaste_NoTrivia(st, token) ==
    SwitchResult([st EXCEPT !.diags = Append(@, "IgnoredMacroPaste")],
                 NullTok, 0, FALSE)

\* A MacroPaste at an end of the buffer or next to whitespace is ignored,
\* its trivia kept for the next token.
IgnorePaste(st, token) ==
    SwitchResult([st EXCEPT !.diags = Append(@, "IgnoredMacroPaste"),
                            !.emptyArgTrivia = @ \o token.trivia],
                 NullTok, 0, FALSE)

\* The switch on token.kind for tokens[i].
OpsSwitch(st, tokens, i, garbage) ==
    IF tokens[i].kind = "MacroQuote" THEN
        IF ~IsTok(st.stringify) THEN
            SwitchResult([st EXCEPT !.stringify = tokens[i],
                                    !.stringifyBuffer = <<>>],
                         NullTok, 0, FALSE)
        ELSE
            SwitchResult([st EXCEPT !.stringify = NullTok],
                         stringify(st.stringify.trivia, st.stringifyBuffer),
                         0, FALSE)
    ELSE IF tokens[i].kind = "MacroPaste" THEN
        IF i = 1 \/ i = Len(tokens) \/ tokens[i].trivia # <<>>
           \/ tokens[i + 1].trivia # <<>> \/ st.emptyArgTrivia # <<>> THEN
            IgnorePaste(st, tokens[i])
        ELSE IF IsTok(st.stringify) THEN
            IF st.stringifyBuffer = <<>> \/ tokens[i + 1].kind = "MacroQuote" THEN
                SwitchResult([st EXCEPT !.diags = Append(@, "IgnoredMacroPaste")],
                             NullTok, 0, FALSE)
            ELSE PasteInString(st, concatenateTokens(Last(st.stringifyBuffer),
                                                     tokens[i + 1]))
        ELSE IF IsTok(st.syntheticComment) THEN
            IF Last(st.commentBuffer).kind = "Star"
               /\ tokens[i + 1].kind = "Slash"
            THEN CloseComment(st, Append(st.commentBuffer, tokens[i + 1]))
            ELSE SwitchResult(st, NullTok, 0, FALSE)
        ELSE Paste([st EXCEPT !.ub = @ \/ st.dest = <<>>],
                   Back(st.dest, garbage), tokens[i + 1])
    ELSE IF st.didConcat /\ tokens[i].trivia = <<>> /\ st.emptyArgTrivia = <<>>
    THEN ConcatAgain(st, tokens[i],
                     concatenateTokens(Back(st.dest, garbage), tokens[i]))
    ELSE SwitchResult(st, tokens[i], 0, FALSE)

\* rec: the nested applyMacroOps over the tokens after the `".
EmitNested(st, buf, rec) ==
    [st EXCEPT !.stringifyBuffer = buf,
               !.stringify = NullTok,
               !.dest = rec.dest,
               !.diags = rec.diags,
               !.ub = @ \/ rec.ub,
               !.anyNewMacros = @ \/ rec.anyNewMacros,
               !.made = @ \o rec.made]

\* An escaped identifier that holds `" ends the stringification: buf is
\* stringifyBuffer with the part before it.
EmitSplit(st, newToken, offset, buf, garbage) ==
    EmitNested(st, buf,
               applyMacroOps(splitTokens(newToken, offset + 2),
                             Append(st.dest, stringify(st.stringify.trivia, buf)),
                             st.diags, garbage))

\* newToken goes to dest, to the comment or to the stringification.
Emit(st, newToken, offset, garbage) ==
    IF ~IsTok(st.stringify) THEN
        IF IsTok(st.syntheticComment)
        THEN [st EXCEPT !.commentBuffer = Append(@, newToken)]
        ELSE [st EXCEPT !.dest = Append(@, newToken)]
    ELSE IF offset >= 0 THEN
        EmitSplit(st, newToken, offset,
                  Append(st.stringifyBuffer,
                         Tok("Identifier", newToken.trivia,
                             SubSeq(newToken.text, 1, offset), "None")),
                  garbage)
    ELSE [st EXCEPT !.stringifyBuffer = Append(@, newToken)]

\* newToken with the trivia of the empty arguments before it.
EmitCarry(st, newToken, garbage) ==
    Emit([st EXCEPT !.emptyArgTrivia = <<>>], newToken,
         IF newToken.kind = "Identifier" /\ newToken.text # <<>>
            /\ newToken.text[1] = Backslash
         THEN Find2(newToken.text, Grave, DQuote, 1) ELSE -1,
         garbage)

\* A mutation of OpsEmit that puts the carried trivia behind the trivia of
\* the token.
OpsEmit_Behind(st0, newToken, nextDidConcat, garbage) ==
    IF ~IsTok(newToken) THEN [st0 EXCEPT !.didConcat = nextDidConcat]
    ELSE IF newToken.kind = "EmptyMacroArgument" THEN
        [st0 EXCEPT !.didConcat = nextDidConcat,
                    !.emptyArgTrivia = @ \o newToken.trivia]
    ELSE EmitCarry([st0 EXCEPT !.didConcat = nextDidConcat],
                   IF st0.emptyArgTrivia # <<>>
                   THEN withTrivia(newToken, newToken.trivia \o st0.emptyArgTrivia)
                   ELSE newToken,
                   garbage)

\* The rest of the loop body, after the switch.
OpsEmit(st0, newToken, nextDidConcat, garbage) ==
    IF ~IsTok(newToken) THEN [st0 EXCEPT !.didConcat = nextDidConcat]
    ELSE IF newToken.kind = "EmptyMacroArgument" THEN
        [st0 EXCEPT !.didConcat = nextDidConcat,
                    !.emptyArgTrivia = @ \o newToken.trivia]
    ELSE EmitCarry([st0 EXCEPT !.didConcat = nextDidConcat],
                   IF st0.emptyArgTrivia # <<>>
                   THEN withTrivia(newToken, st0.emptyArgTrivia \o newToken.trivia)
                   ELSE newToken,
                   garbage)

\* steps: the state of the loop at the head of every pass, with the index
\* of the token the pass starts at, and at the end of the loop.
Stepping(st, i) ==
    [st EXCEPT !.steps = Append(@, [i |-> i,
                                    st |-> [st EXCEPT !.steps = <<>>,
                                                      !.made = <<>>]])]

RECURSIVE OpsLoop(_, _, _, _)

\* One pass of the loop body: sw is what the switch left.
OpsAfter(sw, tokens, i, garbage) ==
    OpsLoop(OpsEmit(sw.st, sw.newToken, sw.nextDidConcat, garbage),
            tokens, i + 1 + sw.skip, garbage)

OpsLoop(st, tokens, i, garbage) ==
    IF i > Len(tokens) THEN Stepping(st, i)
    ELSE OpsAfter(OpsSwitch(Stepping(st, i), tokens, i, garbage),
                  tokens, i, garbage)

\* A mutation of OpsResult that hands on the tokens of a stringification
\* that was not closed.
OpsResult_Flush(st) ==
    [dest |-> IF IsTok(st.stringify) THEN st.dest \o st.stringifyBuffer
              ELSE st.dest,
     diags |-> IF IsTok(st.stringify)
               THEN Append(st.diags, "ExpectedMacroStringifyEnd")
               ELSE st.diags,
     anyNewMacros |-> st.anyNewMacros,
     ub |-> st.ub, made |-> st.made, steps |-> st.steps]

\* A mutation of OpsResult that hands on the tokens of a synthetic comment
\* that was not closed.
OpsResult_Comment(st) ==
    [dest |-> IF IsTok(st.syntheticComment) THEN st.dest \o st.commentBuffer
              ELSE st.dest,
     diags |-> IF IsTok(st.stringify)
               THEN Append(st.diags, "ExpectedMacroStringifyEnd")
               ELSE st.diags,
     anyNewMacros |-> st.anyNewMacros,
     ub |-> st.ub, made |-> st.made, steps |-> st.steps]

\* What applyMacroOps leaves, st being the state after the loop.
OpsResult(st) ==
    [dest |-> st.dest,
     diags |-> IF IsTok(st.stringify)
               THEN Append(st.diags, "ExpectedMacroStringifyEnd")
               ELSE st.diags,
     anyNewMacros |-> st.anyNewMacros,
     ub |-> st.ub, made |-> st.made, steps |-> st.steps]

applyMacroOps(tokens, dest, diags, garbage) ==
    OpsResult(OpsLoop(OpsState(dest, diags), tokens, 1, garbage))


(***************************************************************************)
(* handleTopLevelMacro.                                                    *)
(***************************************************************************)
\* How a call of handleTopLevelMacro ends:
\*   "unknown"   the name is not in the macro table
\*   "assert"    ASSERT(!currentMacroToken) fired
\*   "noargs"    the actual argument list is missing
\*   "failed"    expandMacro or expandReplacementList returned false
\*   "expanded"  the fixpoint loop was left by its break
\*   "recursion" expandReplacementList was called in a configuration that
\*               is already active: the recursion never returns
\*   "loop"      the fixpoint loop came back to the tokens of an earlier
\*               iteration: it never exits
\*   "depth", "iterations"  the model's bounds were reached
Outcome(kind, w, expanded, cur, args, iter, ub) ==
    [kind |-> kind, stream |-> w.stream, diags |-> w.diags,
     expandedTokens |-> expanded, currentMacroToken |-> cur,
     actualArgs |-> args, iterations |-> iter, ub |-> ub]

\* The state of the while (true) loop.  seen: the (tokens, stream) pairs at
\* the head of the earlier iterations; expanded: the contents of
\* expandedTokens.
LoopState(tokens, alreadyExpanded, w, expanded, args, seen, garbage, ub) ==
    [tokens |-> tokens, alreadyExpanded |-> alreadyExpanded, w |-> w,
     expanded |-> expanded, args |-> args, seen |-> seen, garbage |-> garbage,
     ub |-> ub]

RECURSIVE FixpointLoop(_)

\* ops: what applyMacroOps made of the expanded tokens.
FixpointApplied(f, r, ops) ==
    IF ~ops.anyNewMacros /\ ~r.expandedSomething THEN
        Outcome("expanded", World(r.w.stream, ops.diags), ops.dest,
                IF ops.dest # <<>> THEN 1 ELSE 0,
                f.args, Cardinality(f.seen) + 1, f.ub \/ ops.ub)
    ELSE FixpointLoop(
             LoopState(ops.dest, f.alreadyExpanded, World(r.w.stream, ops.diags),
                       ops.dest, f.args,
                       f.seen \cup {<<f.tokens, f.w.stream>>}, f.garbage,
                       f.ub \/ ops.ub))

\* A mutation of FixpointReplaced that sets currentMacroToken although the
\* replacement failed.
FixpointReplaced_Queued(f, r) ==
    IF ~r.ok THEN
        Outcome(IF r.div = "no" THEN "failed" ELSE r.div,
                r.w, f.expanded, 1, f.args, Cardinality(f.seen) + 1, f.ub)
    ELSE FixpointApplied(f, r,
                         applyMacroOps(r.tokens, <<>>, r.w.diags, f.garbage))

\* r: what expandReplacementList returned.
FixpointReplaced(f, r) ==
    IF ~r.ok THEN
        Outcome(IF r.div = "no" THEN "failed" ELSE r.div,
                r.w, f.expanded, 0, f.args, Cardinality(f.seen) + 1, f.ub)
    ELSE FixpointApplied(f, r,
                         applyMacroOps(r.tokens, <<>>, r.w.diags, f.garbage))

\* The while (true) loop.
FixpointLoop(f) ==
    IF <<f.tokens, f.w.stream>> \in f.seen THEN
        Outcome("loop", f.w, f.expanded, 0, f.args, Cardinality(f.seen), f.ub)
    ELSE IF Cardinality(f.seen) >= MaxIter THEN
        Outcome("iterations", f.w, f.expanded, 0, f.args, Cardinality(f.seen),
                f.ub)
    ELSE FixpointReplaced(f, expandReplacementList(f.tokens, f.alreadyExpanded,
                                                   f.w, {}))

\* em: what expandMacro returned for the usage.
TopLevelExpanded(macro, pa, em, garbage) ==
    IF ~em.ok THEN
        Outcome(IF em.div = "no" THEN "failed" ELSE em.div,
                em.w, expandedTokens, 0, pa.list, 0, FALSE)
    ELSE FixpointLoop(
             LoopState(em.e.dest,
                       IF isIntrinsic(macro) THEN {} ELSE {SyntaxPtr(macro)},
                       em.w, expandedTokens, pa.list, {}, garbage, FALSE))

\* pa: the actual arguments, if the macro takes any.
TopLevelParsed(directive, macro, pa, garbage) ==
    IF needsArgs(macro) /\ ~pa.list.present THEN
        Outcome("noargs", ParserWorld(pa.p), expandedTokens, 0, NoArgs, 0, FALSE)
    ELSE TopLevelExpanded(macro, pa,
             expandMacro(macro, MacroExpansion(<<>>, directive, TRUE), pa.list,
                         ParserWorld(pa.p), {}),
             garbage)

\* The usage of an unknown name, after its argument list was consumed.
UnknownParsed(pa) ==
    Outcome("unknown", ParserWorld(pa.p), expandedTokens, currentMacroToken,
            pa.list, 0, FALSE)

\* UnknownUsage without the skip over the argument list.
UnknownUsage_NoSkip(directive, w) ==
    Outcome("unknown", w, expandedTokens, currentMacroToken, NoArgs, 0, FALSE)

\* The usage of a name that is not in the macro table: w holds the
\* UnknownDirective diagnostic.
UnknownUsage(directive, w) ==
    IF pp_peek(w.stream).kind = "OpenParenthesis" THEN
        UnknownParsed(parseActualArgumentList(Parser(<<>>, w), directive))
    ELSE Outcome("unknown", w, expandedTokens, currentMacroToken, NoArgs,
                 0, FALSE)

\* macro: findMacro of the directive.
TopLevelFound(directive, w, pending, garbage, macro) ==
    IF ~valid(macro) THEN UnknownUsage(directive, addDiag(w, "UnknownDirective"))
    ELSE IF pending THEN
        Outcome("assert", w, expandedTokens, currentMacroToken, NoArgs, 0, FALSE)
    ELSE TopLevelParsed(directive, macro,
                        IF needsArgs(macro)
                        THEN parseActualArgumentList(Parser(<<>>, w), directive)
                        ELSE [list |-> NoArgs, p |-> Parser(<<>>, w)],
                        garbage)

\* s: the tokens Preprocessor::peek and consume deliver after the directive;
\* pending: whether currentMacroToken is set at the call.
handleTopLevelMacro(directive, s, pending, garbage) ==
    TopLevelFound(directive, World(s, diagnostics), pending, garbage,
                  findMacro(directive))


(***************************************************************************)
(* The inputs of the model: macro definitions and source text.             *)
(***************************************************************************)
\* The token that text lexes to, under the given trivia.
LexTok(tr, text) ==
    LET f == LexFirst(text) IN Tok(f.kind, tr, text, f.dk)

T(text) == LexTok(<<>>, text)

S(text) == LexTok(<<WS>>, text)

Name(c) == <<c>>

NameXY == <<"X", "Y">>

Use(name) == <<Grave>> \o name

\* `define A `B          `define A `F(`B)        `define A `XY
\* `define B `A          `define B `F(`A)        `define B `E(1)
\* `define F(y) y        `define E(a, b) a b     `define G(a, b = 2) a b
\* `define XY `X``Y      `define P(a, b) a``b    `define define1 2
MacroLib ==
    { DefineSyntax(Name("A"), NoFormals, <<S(Use(Name("B")))>>),
      DefineSyntax(Name("A"), NoFormals,
                   <<S(Use(Name("F"))), T(<<"(">>), T(Use(Name("B"))), T(<<")">>)>>),
      DefineSyntax(Name("A"), NoFormals, <<S(Use(NameXY))>>),
      DefineSyntax(Name("B"), NoFormals, <<S(Use(Name("A")))>>),
      DefineSyntax(Name("B"), NoFormals,
                   <<S(Use(Name("F"))), T(<<"(">>), T(Use(Name("A"))), T(<<")">>)>>),
      DefineSyntax(Name("B"), NoFormals,
                   <<S(Use(Name("E"))), T(<<"(">>), T(<<"1">>), T(<<")">>)>>),
      DefineSyntax(Name("F"), Formals(<<Formal(T(<<"y">>), NoTokens)>>),
                   <<S(<<"y">>)>>),
      DefineSyntax(Name("G"),
                   Formals(<<Formal(T(<<"a">>), NoTokens),
                             Formal(S(<<"b">>), SomeTokens(<<S(<<"2">>)>>))>>),
                   <<S(<<"a">>), S(<<"b">>)>>),
      DefineSyntax(Name("E"),
                   Formals(<<Formal(T(<<"a">>), NoTokens),
                             Formal(S(<<"b">>), NoTokens)>>),
                   <<S(<<"a">>), S(<<"b">>)>>),
      DefineSyntax(NameXY, NoFormals,
                   <<S(Use(Name("X"))), T(<<Grave, Grave>>), T(<<"Y">>)>>),
      DefineSyntax(Name("P"),
                   Formals(<<Formal(T(<<"a">>), NoTokens),
                             Formal(S(<<"b">>), NoTokens)>>),
                   <<S(<<"a">>), T(<<Grave, Grave>>), T(<<"b">>)>>),
      DefineSyntax(DefineText \o <<"1">>, NoFormals, <<S(<<"2">>)>>) }

LP == T(<<"(">>)

RP == T(<<")">>)

CM == T(<<",">>)

\* `A            `B x            `XY x
\* `F(1) x       `F(1, 2) `F(1)  `F x
\* `E(1) x       `P(`,`)         `P(X,Y)      `P(,x)
\* `C((1), 2) x  `C x            `G(1) x      `P(`,define`F(1))
\* `P(`,define`F(1) x)
Programs ==
    { <<T(Use(Name("A")))>>,
      <<T(Use(Name("B"))), S(<<"x">>)>>,
      <<T(Use(NameXY)), S(<<"x">>)>>,
      <<T(Use(Name("F"))), LP, T(<<"1">>), RP, S(<<"x">>)>>,
      <<T(Use(Name("F"))), LP, T(<<"1">>), CM, S(<<"2">>), RP,
        S(Use(Name("F"))), LP, T(<<"1">>), RP>>,
      <<T(Use(Name("F"))), S(<<"x">>)>>,
      <<T(Use(Name("E"))), LP, T(<<"1">>), RP, S(<<"x">>)>>,
      <<T(Use(Name("P"))), LP, T(<<Grave>>), CM, T(<<Grave>>), RP>>,
      <<T(Use(Name("P"))), LP, T(<<"X">>), CM, T(<<"Y">>), RP>>,
      <<T(Use(Name("P"))), LP, CM, T(<<"x">>), RP>>,
      <<T(Use(Name("C"))), LP, LP, T(<<"1">>), RP, CM, S(<<"2">>), RP, S(<<"x">>)>>,
      <<T(Use(Name("C"))), S(<<"x">>)>>,
      <<T(Use(Name("G"))), LP, T(<<"1">>), RP, S(<<"x">>)>>,
      <<T(Use(Name("P"))), LP, T(<<Grave>>), CM, T(DefineText),
        T(Use(Name("F"))), LP, T(<<"1">>), RP, RP>>,
      <<T(Use(Name("P"))), LP, T(<<Grave>>), CM, T(DefineText),
        T(Use(Name("F"))), LP, T(<<"1">>), RP, S(<<"x">>), RP>> }

\* What a read of dest.back() on an empty dest may give.
Garbage == {NullTok, T(<<"/">>), T(<<"X">>)}

(***************************************************************************)
(* The interval map: nodes, distribute and Path.                           *)
(***************************************************************************)
\* The entries a leaf holds and the children a branch holds.
LeafCapacity == 2

BranchCapacity == 2

\* A stored interval [lo, hi] with its value.
Interval(lo, hi, val) == [lo |-> lo, hi |-> hi, val |-> val]

\* The order of the keys: by lo, then by hi.
KeyLess(a, b) == a.lo < b.lo \/ (a.lo = b.lo /\ a.hi < b.hi)

\* The union of two bounds.
unionWith(a, b) ==
    [lo |-> IF b.lo < a.lo THEN b.lo ELSE a.lo,
     hi |-> IF b.hi > a.hi THEN b.hi ELSE a.hi]

RECURSIVE UnionAll(_, _, _)
UnionAll(keys, i, acc) ==
    IF i > Len(keys) THEN acc
    ELSE UnionAll(keys, i + 1, unionWith(acc, [lo |-> keys[i].lo, hi |-> keys[i].hi]))

\* The bounds of the keys of a node that is not empty.
NodeBounds(keys) == UnionAll(keys, 2, [lo |-> keys[1].lo, hi |-> keys[1].hi])

\* A leaf holds entries; a branch holds children and, per child, the bounds
\* of the child's subtree.
LeafNode(ents) == [leaf |-> TRUE, ents |-> ents, kids |-> <<>>]

\* Bounds taken from the first and the last key only.
SubtreeBounds_Ends(node) ==
    [lo |-> node.ents[1].lo, hi |-> node.ents[Len(node.ents)].hi]

SubtreeBounds(node) == NodeBounds(node.ents)

BranchNode(kids) ==
    [leaf |-> FALSE,
     ents |-> [i \in DOMAIN kids |-> SubtreeBounds(kids[i])],
     kids |-> kids]

NullNode == LeafNode(<<>>)

\* NodeRef: size() and childAt(i).  A slot past the children holds no node.
NodeSize(node) == Len(node.ents)

NodeChildAt(node, i) ==
    IF i + 1 \in DOMAIN node.kids THEN node.kids[i + 1] ELSE NullNode

IndexPair(first, second) == [first |-> first, second |-> second]

DistributeState(newSizes, posPair, sum) ==
    [newSizes |-> newSizes, posPair |-> posPair, sum |-> sum]

\* A mutation of the loop of distribute that takes the first node whose
\* share ends at the position.
RECURSIVE DistributeLoop_AtEnd(_, _, _, _, _, _)
DistributeLoop_AtEnd(d, n, numNodes, perNode, extra, position) ==
    IF n = numNodes THEN d
    ELSE LET size == perNode + (IF n < extra THEN 1 ELSE 0)
             sum == d.sum + size
         IN  DistributeLoop_AtEnd(
                 DistributeState(
                     Append(d.newSizes, size),
                     IF d.posPair.first = numNodes /\ sum >= position
                     THEN IndexPair(n, position - (sum - size))
                     ELSE d.posPair,
                     sum),
                 n + 1, numNodes, perNode, extra, position)

\* The loop of distribute over the nodes n, n + 1, ...
RECURSIVE DistributeLoop(_, _, _, _, _, _)
DistributeLoop(d, n, numNodes, perNode, extra, position) ==
    IF n = numNodes THEN d
    ELSE LET size == perNode + (IF n < extra THEN 1 ELSE 0)
             sum == d.sum + size
         IN  DistributeLoop(
                 DistributeState(
                     Append(d.newSizes, size),
                     IF d.posPair.first = numNodes /\ sum > position
                     THEN IndexPair(n, position - (sum - size))
                     ELSE d.posPair,
                     sum),
                 n + 1, numNodes, perNode, extra, position)

\* A mutation of the end of distribute that does not take the slot back.
DistributeGrow_Kept(d, numNodes, total, grow, pre) ==
    LET found == d.posPair.first < numNodes
        nonEmpty == found /\ d.newSizes[d.posPair.first + 1] > 0
    IN  [newSizes |-> d.newSizes,
         posPair |-> d.posPair,
         asserts |-> pre /\ d.sum = total /\ (grow => nonEmpty)]

\* The end of distribute: the slot of the new element is taken back.
\* asserts tells whether every ASSERT of the call held.
DistributeGrow(d, numNodes, total, grow, pre) ==
    LET found == d.posPair.first < numNodes
        nonEmpty == found /\ d.newSizes[d.posPair.first + 1] > 0
    IN  [newSizes |-> IF grow /\ nonEmpty
                      THEN [d.newSizes EXCEPT ![d.posPair.first + 1] = @ - 1]
                      ELSE d.newSizes,
         posPair |-> d.posPair,
         asserts |-> pre /\ d.sum = total /\ (grow => nonEmpty)]

\* A mutation of distribute that gives no node one element more.
distribute_NoExtra(numNodes, numElements, capacity, position, grow) ==
    LET g == IF grow THEN 1 ELSE 0
        pre == numElements + g <= numNodes * capacity /\ position <= numElements
    IN  IF numNodes = 0
        THEN [newSizes |-> <<>>, posPair |-> IndexPair(0, 0), asserts |-> pre]
        ELSE DistributeGrow(
                 DistributeLoop(DistributeState(<<>>, IndexPair(numNodes, 0), 0),
                                0, numNodes, (numElements + g) \div numNodes,
                                0, position),
                 numNodes, numElements + g, grow, pre)

distribute(numNodes, numElements, capacity, position, grow) ==
    LET g == IF grow THEN 1 ELSE 0
        pre == numElements + g <= numNodes * capacity /\ position <= numElements
    IN  IF numNodes = 0
        THEN [newSizes |-> <<>>, posPair |-> IndexPair(0, 0), asserts |-> pre]
        ELSE DistributeGrow(
                 DistributeLoop(DistributeState(<<>>, IndexPair(numNodes, 0), 0),
                                0, numNodes, (numElements + g) \div numNodes,
                                (numElements + g) % numNodes, position),
                 numNodes, numElements + g, grow, pre)

\* A Path is the vector of its entries, root first; path[l] of the code is
\* path[l + 1] here.
Entry(node, size, offset) == [node |-> node, size |-> size, offset |-> offset]

EntryAt(nodeRef, offset) == Entry(nodeRef, NodeSize(nodeRef), offset)

Path_valid(path) == path # <<>> /\ path[1].offset < path[1].size

Path_height(path) == Len(path) - 1

Path_childAt(path, level) ==
    NodeChildAt(path[level + 1].node, path[level + 1].offset)

Path_leafOffset(path) == Last(path).offset

Path_leafSize(path) == Last(path).size

\* path.resize(n, e)
Resize(path, n, e) ==
    [i \in 1..n |-> IF i <= Len(path) THEN path[i] ELSE e]

\* The descent of moveLeft to the rightmost entry of the subtree nodeRef.
RECURSIVE DescendLast(_, _, _, _)
DescendLast(path, nodeRef, l, level) ==
    IF l # level
    THEN DescendLast([path EXCEPT ![l + 1] = EntryAt(nodeRef, NodeSize(nodeRef) - 1)],
                     NodeChildAt(nodeRef, NodeSize(nodeRef) - 1), l + 1, level)
    ELSE [path EXCEPT ![l + 1] = EntryAt(nodeRef, NodeSize(nodeRef) - 1)]

\* The climb of moveLeft; -1 when ASSERT(l) fails.
RECURSIVE ClimbLeft(_, _)
ClimbLeft(path, l) ==
    IF path[l + 1].offset # 0 THEN l
    ELSE IF l = 0 THEN -1
    ELSE ClimbLeft(path, l - 1)

MovedLeft(path, l, level) ==
    DescendLast([path EXCEPT ![l + 1].offset = @ - 1],
                NodeChildAt(path[l + 1].node, path[l + 1].offset - 1),
                l + 1, level)

\* moveLeft without the descent to the rightmost entry.
Path_moveLeft_NoDescend(path, level) ==
    IF Path_valid(path) /\ ClimbLeft(path, level - 1) >= 0
    THEN [path EXCEPT ![ClimbLeft(path, level - 1) + 1].offset = @ - 1]
    ELSE [path EXCEPT ![1].offset = @ - 1]

\* Path::moveLeft; the empty path when an ASSERT stops the call.
Path_moveLeft(path, level) ==
    IF level = 0 THEN <<>>
    ELSE IF Path_valid(path)
    THEN IF ClimbLeft(path, level - 1) < 0 THEN <<>>
         ELSE MovedLeft(path, ClimbLeft(path, level - 1), level)
    ELSE IF Path_height(path) < level
    THEN MovedLeft(Resize(path, level + 1, Entry(NullNode, 0, 0)), 0, level)
    ELSE MovedLeft(path, 0, level)

\* The descent of moveRight to the first entry of the subtree nodeRef.
RECURSIVE DescendFirst(_, _, _, _)
DescendFirst(path, nodeRef, l, level) ==
    IF l # level
    THEN DescendFirst([path EXCEPT ![l + 1] = EntryAt(nodeRef, 0)],
                      NodeChildAt(nodeRef, 0), l + 1, level)
    ELSE [path EXCEPT ![l + 1] = EntryAt(nodeRef, 0)]

\* A mutation of the climb of moveRight that goes up to the root.
ClimbRight_Root(path, l) == 0

\* The climb of moveRight.
RECURSIVE ClimbRight(_, _)
ClimbRight(path, l) ==
    IF l # 0 /\ path[l + 1].offset = path[l + 1].size - 1
    THEN ClimbRight(path, l - 1) ELSE l

MovedRight(path, l, level) ==
    IF path[l + 1].offset + 1 = path[l + 1].size
    THEN [path EXCEPT ![l + 1].offset = @ + 1]
    ELSE DescendFirst([path EXCEPT ![l + 1].offset = @ + 1],
                      NodeChildAt(path[l + 1].node, path[l + 1].offset + 1),
                      l + 1, level)

\* moveRight without the descent to the first entry.
Path_moveRight_NoDescend(path, level) ==
    [path EXCEPT ![ClimbRight(path, level - 1) + 1].offset = @ + 1]

\* Path::moveRight; the empty path when ASSERT(level) stops the call.
Path_moveRight(path, level) ==
    IF level = 0 THEN <<>>
    ELSE MovedRight(path, ClimbRight(path, level - 1), level)

(***************************************************************************)
(* The interval map: insert, iterators, find and getBounds.                *)
(*                                                                         *)
(* IntervalMap.h is not among the source files: this part follows the      *)
(* description of the map (a B-tree of sorted leaves, split by distribute, *)
(* iterators that are Paths) and the unit tests.  A node that overflows is *)
(* split in two; entries are not moved to sibling nodes.                   *)
(***************************************************************************)
\* The place before the keys that are equal.
UpperPos_BeforeEqual(ents, e) ==
    Cardinality({i \in DOMAIN ents : KeyLess(ents[i], e)})

\* The place of a new key among the sorted keys of a node: after every key
\* that is not greater.
UpperPos(ents, e) ==
    Cardinality({i \in DOMAIN ents : ~KeyLess(e, ents[i])})

InsertAt(seq, pos, x) ==
    SubSeq(seq, 1, pos) \o <<x>> \o SubSeq(seq, pos + 1, Len(seq))

ReplaceAt(seq, pos, xs) ==
    SubSeq(seq, 1, pos) \o xs \o SubSeq(seq, pos + 2, Len(seq))

\* The first key of a subtree.
RECURSIVE FirstKey(_)
FirstKey(node) ==
    IF node.leaf THEN node.ents[1] ELSE FirstKey(node.kids[1])

\* The child a new key goes to: the last one that starts with a key that is
\* not greater, and the first child if there is none.
ChildFor(node, e) ==
    LET le == {i \in DOMAIN node.kids : ~KeyLess(e, FirstKey(node.kids[i]))}
    IN  IF le = {} THEN 0 ELSE Cardinality(le) - 1

MakeNode(isLeaf, all) == IF isLeaf THEN LeafNode(all) ELSE BranchNode(all)

\* The nodes that hold the elements all when one node cannot: the sizes are
\* those of distribute, with the new element in the node distribute names.
SplitNode(isLeaf, all, d) ==
    LET n1 == d.newSizes[1] + (IF d.posPair.first = 0 THEN 1 ELSE 0)
    IN  <<MakeNode(isLeaf, SubSeq(all, 1, n1)),
          MakeNode(isLeaf, SubSeq(all, n1 + 1, Len(all)))>>

\* The node, or the two nodes after a split, that hold all; pos is the
\* place of the element that was added.
Overflow(isLeaf, all, pos, capacity) ==
    IF Len(all) <= capacity THEN <<MakeNode(isLeaf, all)>>
    ELSE SplitNode(isLeaf, all, distribute(2, Len(all) - 1, capacity, pos, TRUE))

BranchInserted(node, c, sub) ==
    Overflow(FALSE, ReplaceAt(node.kids, c, sub), c + Len(sub) - 1, BranchCapacity)

RECURSIVE InsertInto(_, _)
InsertInto(node, e) ==
    IF node.leaf
    THEN Overflow(TRUE, InsertAt(node.ents, UpperPos(node.ents, e), e),
                  UpperPos(node.ents, e), LeafCapacity)
    ELSE BranchInserted(node, ChildFor(node, e),
                        InsertInto(node.kids[ChildFor(node, e) + 1], e))

\* The map: its root and its height; a map of height 0 is flat.
Map(root, height) == [root |-> root, height |-> height]

EmptyMap == Map(LeafNode(<<>>), 0)

Rooted(map, nodes) ==
    IF Len(nodes) = 1 THEN Map(nodes[1], map.height)
    ELSE Map(BranchNode(nodes), map.height + 1)

insert(map, e) == Rooted(map, InsertInto(map.root, e))

getBounds(map) == SubtreeBounds(map.root)

begin(map) ==
    DescendFirst(Resize(<<>>, map.height + 1, Entry(NullNode, 0, 0)),
                 map.root, 0, map.height)

end(map) == <<EntryAt(map.root, NodeSize(map.root))>>

\* operator== of iterators.
IterEq(a, b) ==
    IF ~Path_valid(a) THEN ~Path_valid(b)
    ELSE b # <<>> /\ Path_leafOffset(a) = Path_leafOffset(b)
                  /\ Last(a).node = Last(b).node

NoEntry == Interval(-1, -1, 0)

\* operator* with bounds(): the entry the iterator is at.
Deref(path) ==
    IF path # <<>> /\ Last(path).node.leaf
       /\ Last(path).offset + 1 \in DOMAIN Last(path).node.ents
    THEN Last(path).node.ents[Last(path).offset + 1]
    ELSE NoEntry

Stepped(path, by) == [path EXCEPT ![Len(path)].offset = @ + by]

\* operator++
Inc(path, height) ==
    IF Path_leafOffset(path) + 1 = Path_leafSize(path) /\ height > 0
    THEN Path_moveRight(Stepped(path, 1), height)
    ELSE Stepped(path, 1)

\* operator--
Dec(path, height) ==
    IF Path_leafOffset(path) # 0 /\ (Path_valid(path) \/ height = 0)
    THEN Stepped(path, -1)
    ELSE Path_moveLeft(path, height)

Overlaps(e, q) == e.lo <= q.hi /\ e.hi >= q.lo

\* The overlap iterator: the next entry at or after it that overlaps q; no
\* entry from the first key right of q on does.
RECURSIVE FindFrom(_, _, _, _)
FindFrom(it, map, q, fuel) ==
    IF ~Path_valid(it) \/ fuel = 0 THEN it
    ELSE IF Deref(it).lo > q.hi THEN end(map)
    ELSE IF Overlaps(Deref(it), q) THEN it
    ELSE FindFrom(Inc(it, map.height), map, q, fuel - 1)

find(map, q, fuel) == FindFrom(begin(map), map, q, fuel)

Walk(visited, it) == [visited |-> visited, it |-> it]

\* for (it = ...; it.valid(); ++it) over at most fuel entries.
RECURSIVE Forward(_, _, _, _)
Forward(it, height, acc, fuel) ==
    IF ~Path_valid(it) \/ fuel = 0 THEN Walk(acc, it)
    ELSE Forward(Inc(it, height), height, Append(acc, Deref(it)), fuel - 1)

\* n times --it.
RECURSIVE Backward(_, _, _, _)
RECURSIVE BackwardAt(_, _, _, _)
Backward(it, height, acc, n) ==
    IF n = 0 \/ it = <<>> THEN Walk(acc, it)
    ELSE BackwardAt(Dec(it, height), height, acc, n)

BackwardAt(it, height, acc, n) ==
    Backward(it, height, Append(acc, Deref(it)), n - 1)

\* for (it = find(q); it.valid(); ++it) over at most fuel entries.
RECURSIVE FindWalk(_, _, _, _, _)
FindWalk(it, map, q, acc, fuel) ==
    IF ~Path_valid(it) \/ fuel = 0 THEN Walk(acc, it)
    ELSE FindWalk(FindFrom(Inc(it, map.height), map, q, fuel), map, q,
                  Append(acc, Deref(it)), fuel - 1)

(***************************************************************************)
(* The interval map as a state machine.                                    *)
(***************************************************************************)
\* The number of inserts the model follows.
MaxInserts == 5

\* The intervals that are inserted and the intervals that are looked up.
Intervals == {<<0, 2>>, <<1, 1>>, <<0, 0>>, <<1, 2>>}

Queries == {<<0, 0>>, <<2, 2>>, <<0, 1>>}

VARIABLES
    map,                \* the interval map
    inserted,           \* the entries given to insert, in the order of the calls
    walked              \* what the last operation on the map yielded

imVars == <<map, inserted, walked>>

\* A call of distribute: its arguments and, after it, what it wrote to
\* newSizes, what it returned and whether its assertions held.
NoDist == [numNodes |-> 0, numElements |-> 0, capacity |-> 0,
           position |-> 0, grow |-> FALSE,
           newSizes |-> <<>>, posPair |-> IndexPair(0, 0), asserts |-> TRUE]

\* A call of moveRight or moveLeft on its own: the path and the level it
\* is called with, the path it leaves, and the path that the opposite move
\* at the same level makes of that.
NoMove == [from |-> <<>>, level |-> 0, to |-> <<>>, back |-> <<>>]

NoWalk == [op |-> "none", q |-> [lo |-> 0, hi |-> 0],
           forward |-> Walk(<<>>, <<>>), backward |-> Walk(<<>>, <<>>),
           returned |-> Walk(<<>>, <<>>), found |-> Walk(<<>>, <<>>),
           dist |-> NoDist, move |-> NoMove]

\* The path from node down along the offsets offs.
RECURSIVE EntriesAlong(_, _)
EntriesAlong(node, offs) ==
    IF offs = <<>> THEN <<>>
    ELSE <<EntryAt(node, Head(offs))>>
             \o EntriesAlong(NodeChildAt(node, Head(offs)), Tail(offs))

\* offs names a slot of a node at every level above the leaf, and in the
\* leaf a slot or the place behind the last one, where operator++ leaves
\* the offset before it calls moveRight.
RECURSIVE OffsetsInTree(_, _)
OffsetsInTree(node, offs) ==
    IF Len(offs) = 1 THEN Head(offs) <= NodeSize(node)
    ELSE /\ Head(offs) < NodeSize(node)
         /\ OffsetsInTree(NodeChildAt(node, Head(offs)), Tail(offs))

\* The paths into the map that an iterator can hold when it calls a move:
\* those to every slot, the path of end(), and the path that operator++
\* leaves behind the last entry.
MovePaths(m) ==
    LET slots == 0..(IF LeafCapacity > BranchCapacity THEN LeafCapacity
                     ELSE BranchCapacity)
        paths == {EntriesAlong(m.root, offs) :
                     offs \in {o \in [1..(m.height + 1) -> slots] :
                                  OffsetsInTree(m.root, o)}}
    IN  paths \cup {end(m)}
              \cup {[q EXCEPT ![1].offset = q[1].size] :
                       q \in {r \in paths :
                                 \A l \in DOMAIN r : r[l].offset >= r[l].size - 1}}

\* map.insert(lo, hi, value): the value is the number of the call.
IMInsert(iv) ==
    /\ Len(inserted) < MaxInserts
    /\ map' = insert(map, Interval(iv[1], iv[2], Len(inserted) + 1))
    /\ inserted' = Append(inserted, Interval(iv[1], iv[2], Len(inserted) + 1))
    /\ walked' = [NoWalk EXCEPT !.op = "insert"]
    /\ UNCHANGED <<ppVars, opsVars, locVars>>

\* for (it = map.begin(); it.valid(); it++), then as many --it from map.end()
\* and from the iterator the loop ended with.
IMIterate ==
    /\ \E f \in {Forward(begin(map), map.height, <<>>, Len(inserted) + 1)} :
           walked' = [NoWalk EXCEPT
                         !.op = "iterate",
                         !.forward = f,
                         !.backward = Backward(end(map), map.height, <<>>,
                                               Len(f.visited)),
                         !.returned = Backward(f.it, map.height, <<>>,
                                               Len(f.visited))]
    /\ UNCHANGED <<map, inserted>>
    /\ UNCHANGED <<ppVars, opsVars, locVars>>

\* for (oit = map.find(lo, hi); oit != map.end(); oit++)
IMFind(q) ==
    /\ walked' = [NoWalk EXCEPT
                     !.op = "find",
                     !.q = q,
                     !.found = FindWalk(find(map, q, Len(inserted) + 1), map, q,
                                        <<>>, Len(inserted) + 1)]
    /\ UNCHANGED <<map, inserted>>
    /\ UNCHANGED <<ppVars, opsVars, locVars>>

IMInsertAny == \E iv \in Intervals : IMInsert(iv)

IMFindAny == \E iv \in Queries : IMFind([lo |-> iv[1], hi |-> iv[2]])

(***************************************************************************)
(* The preprocessor as a state machine.                                    *)
(***************************************************************************)
\* The names of `__LINE__ and `__FILE__.
LineName == <<"_", "_", "L", "I", "N", "E", "_", "_">>

FileName == <<"_", "_", "F", "I", "L", "E", "_", "_">>

\* A name the tool defines before the first token: `__slang__ is 1.
SlangName == <<"_", "_", "s", "l", "a", "n", "g", "_", "_">>

\* The table the constructor starts from: MacroDef(MacroIntrinsic) sets
\* builtIn and leaves the syntax null.
Intrinsics ==
    [n \in {LineName, FileName} |->
        MacroDef(NoSyntax, TRUE, IF n = LineName THEN "Line" ELSE "File")]

\* What is recorded of a call of one function of the macro engine on its
\* own: ret, the boolean it returned; entry and exit, alreadyExpanded at
\* the call and at the return; expandedSomething, whether the tokens were
\* replaced; pre and map, the arguments expandMacro expanded and the
\* argument map it ended with; expected, the closers that
\* UnbalancedMacroArgDims diagnostics name; at, the source text and the
\* diagnostics at the call; made, the tokens applyMacroOps concatenated;
\* parser, the MacroParser before and after one call of it.
NoCall == [ret |-> TRUE, entry |-> {}, exit |-> {},
           expandedSomething |-> FALSE, pre |-> <<>>, map |-> <<>>,
           expected |-> <<>>, at |-> World(<<>>, <<>>), made |-> <<>>,
           run |-> <<>>, steps |-> <<>>, parser |-> <<>>]

\* What is recorded of the last operation.  later: after a usage that
\* failed, what the usage that follows it in the source comes to when it is
\* processed in place of the failed one; buffersBefore: the number of
\* expansion buffers before the usage.
NoOp == [op |-> "init", kind |-> "none", directive |-> NullTok,
         actualArgs |-> NoArgs, diagsBefore |-> 0, iterations |-> 0,
         ub |-> FALSE, later |-> {}, buffersBefore |-> 0, call |-> NoCall]

\* A call that never returns, or that left the model's bounds.
Stopped == last.kind \in {"recursion", "loop", "assert", "depth", "iterations"}

PPInit ==
    /\ macros = createBuiltInMacro(Intrinsics, SlangName, 1, <<>>)
    /\ stream \in Programs
    /\ expandedTokens = <<>>
    /\ currentMacroToken = 0
    /\ diagnostics = <<>>
    /\ output = <<>>
    /\ defines = 0
    /\ undefs = 0
    /\ last = NoOp
    /\ buffer = <<>>
    /\ sourceManager = <<>>
    /\ chain = <<>>
    /\ map = EmptyMap
    /\ inserted = <<>>
    /\ walked = NoWalk

\* A mutation of Define that does not wait for the queued tokens.
Define_WhileQueued(d) ==
    /\ ~Stopped
    /\ defines < MaxDefines
    /\ macros' = [n \in DOMAIN macros \cup {d.name} |->
                     IF n = d.name THEN MacroDef(d, FALSE, "None") ELSE macros[n]]
    /\ defines' = defines + 1
    /\ last' = [NoOp EXCEPT !.op = "define"]
    /\ UNCHANGED <<stream, expandedTokens, currentMacroToken, diagnostics, output,
                   undefs>>
    /\ UNCHANGED <<imVars, opsVars, locVars>>

\* A `define directive of the source file: the table entry is inserted or
\* replaced, with a warning if the name had a definition that is not the
\* same macro.
Define(d) ==
    /\ ~Stopped
    /\ currentMacroToken = 0
    /\ defines < MaxDefines
    /\ diagnostics' =
           IF d.name \in DOMAIN macros
              /\ ~isSameMacro(d, macros[d.name].syntax)
           THEN Append(diagnostics, "RedefiningMacro")
           ELSE diagnostics
    /\ macros' = [n \in DOMAIN macros \cup {d.name} |->
                     IF n = d.name THEN MacroDef(d, FALSE, "None") ELSE macros[n]]
    /\ defines' = defines + 1
    /\ last' = [NoOp EXCEPT !.op = "define", !.directive = T(d.name),
                            !.diagsBefore = Len(diagnostics)]
    /\ UNCHANGED <<stream, expandedTokens, currentMacroToken, output, undefs>>
    /\ UNCHANGED <<imVars, opsVars, locVars>>

\* The tokens of the last expansion that are still to be delivered.
Pending ==
    IF currentMacroToken = 0 THEN <<>>
    ELSE SubSeq(expandedTokens, currentMacroToken, Len(expandedTokens))

\* Preprocessor::nextRaw: the expanded tokens first, then the lexer's.
RawTokens == Pending \o stream

\* The state after k raw tokens were taken.
Taken(k) ==
    LET left == Len(Pending) - k
    IN  [cur |-> IF left > 0 THEN Len(expandedTokens) - left + 1 ELSE 0,
         stream |-> IF left >= 0 THEN stream
                    ELSE SubSeq(stream, 1 - left, Len(stream))]

\* What a usage comes to: the way it ends, the diagnostics it adds, the
\* source it leaves and the tokens it queues.
LaterUsage(kind, before, diags, s, expanded, cur) ==
    [kind |-> kind, added |-> SubSeq(diags, Len(before) + 1, Len(diags)),
     stream |-> s,
     queued |-> IF kind = "expanded" THEN expanded ELSE <<>>,
     currentMacroToken |-> IF kind = "expanded" THEN cur ELSE 0]

LaterOutcome(o) ==
    LaterUsage(o.kind, diagnostics, o.diags, o.stream, o.expandedTokens,
               o.currentMacroToken)

\* The usage at the head of s, processed in this state.
Later(s) ==
    IF s # <<>> /\ isMacroUsage(Head(s))
    THEN {LaterOutcome(handleTopLevelMacro(Head(s), Tail(s), FALSE, garbage)) :
              garbage \in Garbage}
    ELSE {}

\* The next raw token is a macro usage: handleTopLevelMacro.
HandleUsage ==
    /\ ~Stopped
    /\ RawTokens # <<>>
    /\ isMacroUsage(Head(RawTokens))
    /\ \E garbage \in Garbage :
       \E o \in {handleTopLevelMacro(Head(RawTokens), Tail(RawTokens),
                                     Len(Pending) > 1, garbage)} :
        \* a usage that queued nothing leaves the tokens queued before it
        LET rest == Taken(Len(RawTokens) - Len(o.stream))
            queued == o.kind \notin {"unknown", "assert"}
        IN  /\ stream' = IF queued THEN o.stream ELSE rest.stream
            /\ currentMacroToken' =
                   IF queued THEN o.currentMacroToken ELSE rest.cur
            /\ expandedTokens' = o.expandedTokens
            /\ diagnostics' = o.diags
            /\ last' = [NoOp EXCEPT
                            !.op = "usage", !.kind = o.kind,
                            !.directive = Head(RawTokens),
                            !.actualArgs = o.actualArgs,
                            !.diagsBefore = Len(diagnostics),
                            !.iterations = o.iterations, !.ub = o.ub,
                            !.later = IF o.kind \in {"failed", "noargs"}
                                      THEN Later(o.stream) ELSE {}]
    /\ UNCHANGED <<macros, output, defines, undefs>>
    /\ UNCHANGED <<imVars, opsVars, locVars>>

\* The next raw token is no macro usage: it is handed on.
PassToken ==
    /\ ~Stopped
    /\ RawTokens # <<>>
    /\ ~isMacroUsage(Head(RawTokens))
    /\ output' = Append(output, Head(RawTokens))
    /\ stream' = Taken(1).stream
    /\ currentMacroToken' = Taken(1).cur
    /\ last' = [NoOp EXCEPT !.op = "token"]
    /\ UNCHANGED <<macros, expandedTokens, diagnostics, defines, undefs>>
    /\ UNCHANGED <<imVars, opsVars, locVars>>

DefineAny == \E d \in MacroLib : Define(d)

\* The operand of an `undef directive: the identifier after it, or the
\* missing token that expect(Identifier) gives when there is none.
UndefOperands ==
    {NullTok} \cup {T(n) : n \in {LineName, SlangName, Name("F")}}

\* What an `undef directive does to the table and the diagnostics.
UndefResult(table, diags, nameToken) ==
    IF ~IsTok(nameToken)
    THEN [macros |-> table, diags |-> Append(diags, "ExpectedIdentifier")]
    ELSE IF valueText(nameToken) \notin DOMAIN table
    THEN [macros |-> table, diags |-> diags]
    ELSE IF table[valueText(nameToken)].builtIn
    THEN [macros |-> table, diags |-> Append(diags, "UndefineBuiltinDirective")]
    ELSE [macros |-> [n \in DOMAIN table \ {valueText(nameToken)} |-> table[n]],
          diags |-> diags]

\* An `undef directive of the source file.
Undef(nameToken) ==
    /\ ~Stopped
    /\ currentMacroToken = 0
    /\ undefs < MaxUndefs
    /\ \E r \in {UndefResult(macros, diagnostics, nameToken)} :
           /\ macros' = r.macros
           /\ diagnostics' = r.diags
    /\ undefs' = undefs + 1
    /\ last' = [NoOp EXCEPT !.op = "undef", !.directive = nameToken,
                            !.diagsBefore = Len(diagnostics)]
    /\ UNCHANGED <<stream, expandedTokens, currentMacroToken, output, defines>>
    /\ UNCHANGED <<imVars, opsVars, locVars>>

UndefAny == \E t \in UndefOperands : Undef(t)

PPNext == DefineAny \/ HandleUsage \/ PassToken

vars == <<ppVars, imVars, opsVars, locVars>>

\* The preprocessor over its inputs; the interval map is left alone.
Spec == PPInit /\ [][PPNext]_vars

(***************************************************************************)
(* The directives that change the macro table.                             *)
(***************************************************************************)
\* A token of a `define directive, with the place in the file it stands at.
At(tok, loc) ==
    [kind |-> tok.kind, trivia |-> tok.trivia, text |-> tok.text,
     dk |-> tok.dk, loc |-> loc]

TAB == Trivia("Whitespace", <<"\t">>)

\* `define F(a, b = 2) a b, written at line l
DefineF(l) ==
    DefineSyntax(Name("F"),
                 Formals(<<Formal(At(T(<<"a">>), l + 1), NoTokens),
                           Formal(At(S(<<"b">>), l + 2),
                                  SomeTokens(<<At(S(<<"2">>), l + 3)>>))>>),
                 <<At(S(<<"a">>), l + 4), At(S(<<"b">>), l + 5)>>)

\* `define F(a, b = 2) a b      twice, at different lines
\* `define F(a, b) a b          `define F(a, b =) a b
\* `define F(a, b = 1) a b      `define F(a, y = 2) a b
\* `define F(a, b = 2) a  b     `define F(a, b = 2) a<tab>b
\* `define F(a) a b
\* `define N x   twice          `define N() x
Redefinitions ==
    { DefineF(10), DefineF(20),
      [DefineF(10) EXCEPT !.formalArguments.args[2].defaultValue = NoTokens],
      [DefineF(10) EXCEPT !.formalArguments.args[2].defaultValue =
                              SomeTokens(<<>>)],
      [DefineF(10) EXCEPT !.formalArguments.args[2].defaultValue =
                              SomeTokens(<<At(S(<<"1">>), 13)>>)],
      [DefineF(10) EXCEPT !.formalArguments.args[2].name = At(S(<<"y">>), 12)],
      [DefineF(10) EXCEPT !.body[2].trivia = <<WS, WS>>],
      [DefineF(10) EXCEPT !.body[2].trivia = <<TAB>>],
      [DefineF(10) EXCEPT !.formalArguments.args = SubSeq(@, 1, 1)],
      DefineSyntax(Name("N"), NoFormals, <<At(S(<<"x">>), 31)>>),
      DefineSyntax(Name("N"), NoFormals, <<At(S(<<"x">>), 41)>>),
      DefineSyntax(Name("N"), Formals(<<>>), <<At(S(<<"x">>), 31)>>) }

\* `__slang__ x               x
DirPrograms ==
    { <<T(Use(SlangName)), S(<<"x">>)>>, <<T(<<"x">>)>> }

Redefine == \E d \in Redefinitions : Define(d)

\* The table the constructor made, before a source text of directives,
\* usages of the built-in macro and plain tokens.
DirInit ==
    /\ macros = createBuiltInMacro(Intrinsics, SlangName, 1, <<>>)
    /\ stream \in DirPrograms
    /\ expandedTokens = <<>>
    /\ currentMacroToken = 0
    /\ diagnostics = <<>>
    /\ output = <<>>
    /\ defines = 0
    /\ undefs = 0
    /\ last = NoOp
    /\ buffer = <<>>
    /\ sourceManager = <<>>
    /\ chain = <<>>
    /\ map = EmptyMap
    /\ inserted = <<>>
    /\ walked = NoWalk

DirNext == Redefine \/ UndefAny \/ HandleUsage \/ PassToken

\* The preprocessor under `define and `undef directives.
SpecDir == DirInit /\ [][DirNext]_vars

(***************************************************************************)
(* applyMacroOps on its own.                                               *)
(***************************************************************************)
\* Tokens in a buffer applyMacroOps can be handed.
MaxTokens == 5

\* `"   ``   <space>``   X   Y   <space>Y   an empty argument after a space
OpsTokens ==
    { T(<<Grave, DQuote>>), T(<<Grave, Grave>>), S(<<Grave, Grave>>),
      T(<<"X">>), T(<<"Y">>), S(<<"Y">>),
      Tok("EmptyMacroArgument", <<WS>>, <<>>, "None") }

\* A buffer of tokens, before applyMacroOps is called on it.
OpsInit ==
    /\ buffer \in UNION {[1..n -> OpsTokens] : n \in 1..MaxTokens}
    /\ sourceManager = <<>>
    /\ chain = <<>>
    /\ macros = createBuiltInMacro(Intrinsics, SlangName, 1, <<>>)
    /\ stream = <<>>
    /\ expandedTokens = <<>>
    /\ currentMacroToken = 0
    /\ diagnostics = <<>>
    /\ output = <<>>
    /\ defines = 0
    /\ undefs = 0
    /\ last = NoOp
    /\ map = EmptyMap
    /\ inserted = <<>>
    /\ walked = NoWalk

\* expandedTokens.clear(); applyMacroOps(tokens, expandedTokens)
OpsApply ==
    /\ last.op = "init"
    /\ \E garbage \in Garbage :
       \E r \in {applyMacroOps(buffer, <<>>, <<>>, garbage)} :
           /\ expandedTokens' = r.dest
           /\ diagnostics' = r.diags
           /\ last' = [NoOp EXCEPT !.op = "ops", !.ub = r.ub,
                                   !.kind = IF r.anyNewMacros THEN "new"
                                            ELSE "none",
                                   !.call = [NoCall EXCEPT !.made = r.made,
                                                            !.steps = r.steps]]
    /\ UNCHANGED <<macros, stream, currentMacroToken, output, defines, undefs>>
    /\ UNCHANGED <<imVars, opsVars, locVars>>

OpsNext == OpsApply

\* applyMacroOps over every buffer of up to MaxTokens tokens.
SpecOps == OpsInit /\ [][OpsNext]_vars

\* The empty map; the preprocessor has no source text and is left alone.
IMInit ==
    /\ map = EmptyMap
    /\ inserted = <<>>
    /\ walked = NoWalk
    /\ macros = createBuiltInMacro(Intrinsics, SlangName, 1, <<>>)
    /\ stream = <<>>
    /\ expandedTokens = <<>>
    /\ currentMacroToken = 0
    /\ diagnostics = <<>>
    /\ output = <<>>
    /\ defines = 0
    /\ undefs = 0
    /\ last = NoOp
    /\ buffer = <<>>
    /\ sourceManager = <<>>
    /\ chain = <<>>

IMNext == IMInsertAny \/ IMIterate \/ IMFindAny

\* The interval map under inserts, traversals and lookups.
SpecIM == IMInit /\ [][IMNext]_vars

(***************************************************************************)
(* Source locations.                                                       *)
(*                                                                         *)
(* The tokens of this part carry a location, and expansion gives each      *)
(* token it emits a location in an expansion buffer of the source manager. *)
(* The operators below are expandMacro, expandReplacementList and          *)
(* handleTopLevelMacro once more, with the locations that the operators    *)
(* above leave out; they leave out in turn what the inputs of this part    *)
(* do not hold: escaped identifiers that are split, `define directives     *)
(* inside a macro body, and the bound on the depth of the recursion.       *)
(***************************************************************************)
\* A SourceLocation: a buffer and an offset into it.  Buffer 0 is the source
\* file, buffer i > 0 is the expansion buffer sourceManager[i].
SourceLocation(b, o) == [buffer |-> b, offset |-> o]

\* SourceLocation::operator+
LocPlus(loc, n) == [loc EXCEPT !.offset = @ + n]

SourceRange(s, e) == [start |-> s, end |-> e]

rawLength(tok) == Len(tok.text)

\* SourceManager::createExpansionLoc: a new expansion buffer, and the
\* location of its start.
createExpansionLoc(sm, originalLoc, expansionRange, isMacroArg) ==
    [sm |-> Append(sm, [originalLoc |-> originalLoc,
                        expansionRange |-> expansionRange,
                        isMacroArg |-> isMacroArg]),
     loc |-> SourceLocation(Len(sm) + 1, 0)]

\* SourceManager::getOriginalLoc: where the text at a location of an
\* expansion buffer is spelled.
getOriginalLoc(sm, loc) == LocPlus(sm[loc.buffer].originalLoc, loc.offset)

\* SourceManager::getExpansionRange
getExpansionRange(sm, loc) == sm[loc.buffer].expansionRange

\* MacroExpansion::getRange
getRange(e) ==
    SourceRange(e.usageSite.loc, LocPlus(e.usageSite.loc, rawLength(e.usageSite)))

\* A run of appends: the expansion, the source manager, and the macroLoc and
\* firstLoc that MacroExpansion::append takes by reference; loc is what
\* adjustLoc returned last.
Run(e, n, firstLoc) ==
    [e |-> e, sm |-> n.sm, macroLoc |-> n.loc, firstLoc |-> firstLoc,
     loc |-> n.loc]

\* A mutation of adjustLoc that keeps the expansion location of the run for
\* a token of another buffer.
adjustLoc_Kept(r, token, expansionRange) ==
    [r EXCEPT !.loc = LocPlus(r.macroLoc,
                              token.loc.offset - r.firstLoc.offset)]

\* A mutation of adjustLoc that records the new expansion location as its own
\* original location.
adjustLoc_Self(r, token, expansionRange) ==
    IF token.loc.buffer # r.firstLoc.buffer THEN
        [r EXCEPT !.firstLoc = token.loc,
                  !.sm = createExpansionLoc(r.sm,
                                            SourceLocation(Len(r.sm) + 1, 0),
                                            expansionRange, TRUE).sm,
                  !.macroLoc = SourceLocation(Len(r.sm) + 1, 0),
                  !.loc = SourceLocation(Len(r.sm) + 1, 0)]
    ELSE [r EXCEPT !.loc = LocPlus(r.macroLoc,
                                   token.loc.offset - r.firstLoc.offset)]

\* MacroExpansion::adjustLoc
adjustLoc(r, token, expansionRange) ==
    IF token.loc.buffer # r.firstLoc.buffer THEN
        [r EXCEPT !.firstLoc = token.loc,
                  !.sm = createExpansionLoc(r.sm, token.loc, expansionRange,
                                            TRUE).sm,
                  !.macroLoc = SourceLocation(Len(r.sm) + 1, 0),
                  !.loc = SourceLocation(Len(r.sm) + 1, 0)]
    ELSE [r EXCEPT !.loc = LocPlus(r.macroLoc,
                                   token.loc.offset - r.firstLoc.offset)]

\* MacroExpansion::append(token, location), a: the run after adjustLoc.
Appended(a, token) ==
    [a EXCEPT !.e = MacroExpansion_append(@, At(token, a.loc), FALSE)]

\* MacroExpansion::append(token, macroLoc, firstLoc, expansionRange)
MacroExpansion_appendAt(r, token, expansionRange) ==
    Appended(adjustLoc(r, token, expansionRange), token)

RECURSIVE AppendRun(_, _, _)
AppendRun(r, toks, expansionRange) ==
    IF toks = <<>> THEN r
    ELSE AppendRun(MacroExpansion_appendAt(r, Head(toks), expansionRange),
                   Tail(toks), expansionRange)

\* expandIntrinsic: the token is at the start of the usage.
expandIntrinsicAt(intrinsic, e) ==
    MacroExpansion_append(e, At(Last(expandIntrinsic(intrinsic, e).dest),
                                getRange(e).start), FALSE)

RECURSIVE expandReplacementListAt(_, _, _, _)

\* The state of the lambda handleToken: the run over the macro body, the
\* argument map and the stream.
HandleStateAt(r, argumentMap, w) ==
    [e |-> r.e, sm |-> r.sm, macroLoc |-> r.macroLoc, firstLoc |-> r.firstLoc,
     loc |-> r.loc, map |-> argumentMap, w |-> w, ok |-> TRUE]

\* A mutation of ArgLoc that does not mark the expansion as one of an
\* argument.
ArgLoc_Body(sm, firstLoc, argRange) ==
    createExpansionLoc(sm, firstLoc, argRange, FALSE)

\* The expansion location of an argument: argRange is where the formal
\* stands in the expansion of the body.
ArgLoc(sm, firstLoc, argRange) ==
    createExpansionLoc(sm, firstLoc, argRange, TRUE)

\* The first token of an argument: under the trivia of the formal, and
\* behind the directive character if the formal stood behind one.
ArgFirst(token, first, combined) ==
    IF token.kind = "Directive" /\ IsTok(combined)
    THEN At(combined, first.loc) ELSE first

\* Where the formal stands in the expansion of the body: a is the run over
\* the body after adjustLoc gave the location of the formal.
ArgRange(a, token) == SourceRange(a.loc, LocPlus(a.loc, rawLength(token)))

\* The run over the body goes on after the run ar over an argument.
ArgAppended(a, ar) == [a EXCEPT !.e = ar.e, !.sm = ar.sm]

\* handleToken, the tokens of the argument are appended under an expansion
\* location of their own.
ArgSubstitute(a, token, toks, first) ==
    ArgAppended(a, AppendRun(Run(a.e, ArgLoc(a.sm, first.loc, ArgRange(a, token)),
                                 first.loc),
                             <<first>> \o Tail(toks), ArgRange(a, token)))

\* handleToken, pre: the argument map[it] after its expansion.
ArgExpandedAt(hs, token, expansionRange, it, pre) ==
    IF ~pre.ok THEN [hs EXCEPT !.ok = FALSE, !.w = pre.w, !.sm = pre.sm]
    ELSE IF pre.tokens = <<>> THEN
        MacroExpansion_appendAt(
            [hs EXCEPT !.map[it].arg = [tokens |-> pre.tokens, isExpanded |-> TRUE],
                       !.w = pre.w, !.sm = pre.sm],
            At(Tok("EmptyMacroArgument", token.trivia, <<>>, "None"), token.loc),
            expansionRange)
    ELSE
        ArgSubstitute(
            adjustLoc([hs EXCEPT
                          !.map[it].arg = [tokens |-> pre.tokens, isExpanded |-> TRUE],
                          !.w = pre.w, !.sm = pre.sm],
                      token, expansionRange),
            token, pre.tokens,
            ArgFirst(token, withTrivia(pre.tokens[1], token.trivia),
                     concatenateTokens(
                         Tok("Unknown", token.trivia, <<Grave>>, "None"),
                         withTrivia(pre.tokens[1], token.trivia))))

\* handleToken, it: the place of the formal in the argument map, or 0.
ArgLookupAt(hs, token, expansionRange, it) ==
    IF it = 0 THEN MacroExpansion_appendAt(hs, token, expansionRange)
    ELSE ArgExpandedAt(hs, token, expansionRange, it,
             IF ~hs.map[it].arg.isExpanded
             THEN expandReplacementListAt(hs.map[it].arg.tokens, {}, hs.w, hs.sm)
             ELSE [ok |-> TRUE, tokens |-> hs.map[it].arg.tokens, w |-> hs.w,
                   sm |-> hs.sm, expandedSomething |-> FALSE])

\* The lambda handleToken of expandMacro.
handleTokenAt(hs, token, expansionRange) ==
    IF token.kind # "Identifier" /\ ~isKeyword(token.kind)
       /\ token.kind # "Directive" THEN
        MacroExpansion_appendAt(hs, token, expansionRange)
    ELSE IF token.kind = "Directive" /\ valueText(token) # <<>>
            /\ token.dk # "MacroUsage" THEN
        MacroExpansion_appendAt(hs, token, expansionRange)
    ELSE ArgLookupAt(hs, token, expansionRange,
                     ArgFind(hs.map,
                             IF token.kind = "Directive" /\ valueText(token) # <<>>
                             THEN Tail(valueText(token)) ELSE valueText(token),
                             1))

\* The loop of expandMacro over the body tokens.
RECURSIVE BodyLoopAt(_, _, _, _)
BodyLoopAt(hs, body, i, expansionRange) ==
    IF i > Len(body) \/ ~hs.ok THEN hs
    ELSE BodyLoopAt(handleTokenAt(hs, body[i], expansionRange), body, i + 1,
                    expansionRange)

\* What expandMacro leaves.
ExpandResultAt(ok, e, w, sm) == [ok |-> ok, e |-> e, w |-> w, sm |-> sm]

\* expandMacro of a macro without formal arguments, r: the run over its body.
RunResult(r, w) == ExpandResultAt(TRUE, r.e, w, r.sm)

\* expandMacro of a macro with formal arguments, m: the actual arguments
\* matched with the formal ones.
ExpandMatchedAt(macro, expansion, w, sm, m, expansionRange) ==
    IF ~m.ok THEN ExpandResultAt(FALSE, expansion,
                                 addDiag(w, "NotEnoughMacroArgs"), sm)
    ELSE BodyLoopAt(
             HandleStateAt(
                 Run(expansion,
                     createExpansionLoc(sm, macro.syntax.body[1].loc,
                                        expansionRange, FALSE),
                     macro.syntax.body[1].loc),
                 m.map, w),
             macro.syntax.body, 1, expansionRange)

expandMacroAt(macro, expansion, actualArgs, w, sm) ==
    IF isIntrinsic(macro) THEN
        ExpandResultAt(TRUE, expandIntrinsicAt(macro.intrinsic, expansion), w, sm)
    ELSE IF macro.syntax.body = <<>> THEN ExpandResultAt(TRUE, expansion, w, sm)
    ELSE IF ~macro.syntax.formalArguments.present THEN
        RunResult(AppendRun(Run(expansion,
                                createExpansionLoc(sm, macro.syntax.body[1].loc,
                                                   getRange(expansion), FALSE),
                                macro.syntax.body[1].loc),
                            macro.syntax.body, getRange(expansion)),
                  w)
    ELSE IF Len(actualArgs.args) > Len(macro.syntax.formalArguments.args) THEN
        ExpandResultAt(FALSE, expansion, addDiag(w, "TooManyActualMacroArgs"), sm)
    ELSE ExpandMatchedAt(macro, expansion, w, sm,
                         MatchArgs(macro.syntax.formalArguments.args,
                                   actualArgs.args, 1, <<>>),
                         SourceRange(getRange(expansion).start,
                                     LocPlus(actualArgs.closeParen.loc,
                                             rawLength(actualArgs.closeParen))))

\* The state of the scan loop of expandReplacementList.
ScanStateAt(p, outBuffer, expandedSomething, alreadyExpanded, sm) ==
    [p |-> p, outBuffer |-> outBuffer, expandedSomething |-> expandedSomething,
     alreadyExpanded |-> alreadyExpanded, sm |-> sm]

\* What expandReplacementList returns: tokens is its in/out parameter.
ReplacementResultAt(c, ok, w, sm) ==
    [ok |-> ok, w |-> w, sm |-> sm,
     tokens |-> IF ok /\ c.expandedSomething THEN c.outBuffer ELSE c.p.buf,
     expandedSomething |-> c.expandedSomething]

RECURSIVE ReplacementLoopAt(_)

\* inner: the macro's output after its own nested expansion.
ReplaceSplicedAt(c, pa, inner) ==
    IF ~inner.ok THEN ReplacementResultAt(c, FALSE, inner.w, inner.sm)
    ELSE ReplacementLoopAt(
             ScanStateAt(WithWorld(pa.p, inner.w), c.outBuffer \o inner.tokens,
                         TRUE, c.alreadyExpanded, inner.sm))

\* em: what expandMacro returned.
ReplaceExpandedAt(c, macro, pa, em) ==
    IF ~em.ok THEN ReplacementResultAt(c, FALSE, em.w, em.sm)
    ELSE ReplaceSplicedAt(c, pa,
             expandReplacementListAt(em.e.dest,
                                     c.alreadyExpanded \cup {SyntaxPtr(macro)},
                                     em.w, em.sm))

\* pa: the actual arguments, if the macro takes any.
ReplaceParsedAt(c, token, macro, pa) ==
    IF needsArgs(macro) /\ ~pa.list.present THEN
        ReplacementResultAt(c, FALSE, ParserWorld(pa.p), c.sm)
    ELSE ReplaceExpandedAt(c, macro, pa,
             expandMacroAt(macro, MacroExpansion(<<>>, token, FALSE), pa.list,
                           ParserWorld(pa.p), c.sm))

\* n: the token taken and the parser after it; macro: findMacro of it.
ReplaceUsageAt(c, n, macro) ==
    IF ~valid(macro) THEN
        ReplacementLoopAt([c EXCEPT !.p = n.p, !.outBuffer = Append(@, n.tok)])
    ELSE IF ~isIntrinsic(macro) /\ SyntaxPtr(macro) \in c.alreadyExpanded THEN
        ReplacementResultAt(c, FALSE,
                            addDiag(ParserWorld(n.p), "RecursiveMacro"), c.sm)
    ELSE ReplaceParsedAt(c, n.tok, macro,
                         IF needsArgs(macro)
                         THEN parseActualArgumentList(n.p, n.tok)
                         ELSE [list |-> NoArgs, p |-> n.p])

ReplaceScanAt(c, n) ==
    IF ~IsTok(n.tok) THEN ReplacementResultAt(c, TRUE, ParserWorld(c.p), c.sm)
    ELSE IF ~isMacroUsage(n.tok) THEN
        ReplacementLoopAt([c EXCEPT !.p = n.p, !.outBuffer = Append(@, n.tok)])
    ELSE ReplaceUsageAt(c, n, findMacro(n.tok))

\* The scan loop of expandReplacementList.
ReplacementLoopAt(c) == ReplaceScanAt(c, MacroParser_next(c.p))

expandReplacementListAt(tokens, alreadyExpanded, w, sm) ==
    ReplacementLoopAt(ScanStateAt(Parser(tokens, w), <<>>, FALSE,
                                  alreadyExpanded, sm))

\* How a call of handleTopLevelMacro ends, with the source manager it leaves.
OutcomeAt(kind, w, expanded, args, sm) ==
    [kind |-> kind, stream |-> w.stream, diags |-> w.diags,
     expandedTokens |-> expanded, actualArgs |-> args, sm |-> sm]

RECURSIVE FixpointLoopAt(_, _, _, _, _, _)

\* r: what expandReplacementList returned; ops: what applyMacroOps made of
\* its tokens.
FixpointAppliedAt(r, ops, alreadyExpanded, args) ==
    IF ~ops.anyNewMacros /\ ~r.expandedSomething THEN
        OutcomeAt("expanded", World(r.w.stream, ops.diags), ops.dest, args, r.sm)
    ELSE FixpointLoopAt(ops.dest, alreadyExpanded,
                        World(r.w.stream, ops.diags), r.sm, ops.dest, args)

\* The while (true) loop of handleTopLevelMacro.
FixpointReplacedAt(r, alreadyExpanded, expanded, args) ==
    IF ~r.ok THEN OutcomeAt("failed", r.w, expanded, args, r.sm)
    ELSE FixpointAppliedAt(r, applyMacroOps(r.tokens, <<>>, r.w.diags, NullTok),
                           alreadyExpanded, args)

FixpointLoopAt(tokens, alreadyExpanded, w, sm, expanded, args) ==
    FixpointReplacedAt(expandReplacementListAt(tokens, alreadyExpanded, w, sm),
                       alreadyExpanded, expanded, args)

\* em: what expandMacro returned for the usage.
TopLevelExpandedAt(macro, pa, em) ==
    IF ~em.ok THEN OutcomeAt("failed", em.w, expandedTokens, pa.list, em.sm)
    ELSE FixpointLoopAt(em.e.dest,
                        IF isIntrinsic(macro) THEN {} ELSE {SyntaxPtr(macro)},
                        em.w, em.sm, expandedTokens, pa.list)

\* pa: the actual arguments, if the macro takes any.
TopLevelParsedAt(directive, macro, pa, sm) ==
    IF needsArgs(macro) /\ ~pa.list.present THEN
        OutcomeAt("noargs", ParserWorld(pa.p), expandedTokens, NoArgs, sm)
    ELSE TopLevelExpandedAt(macro, pa,
             expandMacroAt(macro, MacroExpansion(<<>>, directive, TRUE), pa.list,
                           ParserWorld(pa.p), sm))

\* handleTopLevelMacro for a usage that stands in the source, no expanded
\* token being pending.
handleTopLevelMacroAt(directive, s, sm) ==
    IF ~valid(findMacro(directive)) THEN
        OutcomeAt("unknown",
                  IF pp_peek(s).kind = "OpenParenthesis"
                  THEN ParserWorld(parseActualArgumentList(
                           Parser(<<>>, World(s, Append(diagnostics,
                                                        "UnknownDirective"))),
                           directive).p)
                  ELSE World(s, Append(diagnostics, "UnknownDirective")),
                  expandedTokens, NoArgs, sm)
    ELSE TopLevelParsedAt(directive, findMacro(directive),
                          IF needsArgs(findMacro(directive))
                          THEN parseActualArgumentList(
                                   Parser(<<>>, World(s, diagnostics)), directive)
                          ELSE [list |-> NoArgs,
                                p |-> Parser(<<>>, World(s, diagnostics))],
                          sm)

(***************************************************************************)
(* The preprocessor with locations.                                        *)
(***************************************************************************)
\* The tokens as they stand in the source file from offset off on: each one
\* behind its trivia.
RECURSIVE Located(_, _)
Located(toks, off) ==
    IF toks = <<>> THEN <<>>
    ELSE <<At(Head(toks), SourceLocation(0, off + Len(Head(toks).trivia)))>>
         \o Located(Tail(toks),
                    off + Len(Head(toks).trivia) + Len(Head(toks).text))

\* The offsets at which the macro bodies and the program start in the file.
BodyOffset == [n \in {Name("F"), Name("B"), Name("A"), Name("E"), Name("G")} |->
                  IF n = Name("F") THEN 10 ELSE IF n = Name("B") THEN 20
                  ELSE IF n = Name("A") THEN 30 ELSE IF n = Name("E") THEN 40
                  ELSE 50]

ProgramOffset == BodyOffset[Name("G")] + 50

\* `define F(y) y        `define B(y) `F(y)        `define A 1 X
\* `define E(y, x) x y   `define G(y) y y
LocDefines ==
    { DefineSyntax(Name("F"), Formals(<<Formal(T(<<"y">>), NoTokens)>>),
                   <<S(<<"y">>)>>),
      DefineSyntax(Name("B"), Formals(<<Formal(T(<<"y">>), NoTokens)>>),
                   <<S(Use(Name("F"))), LP, T(<<"y">>), RP>>),
      DefineSyntax(Name("A"), NoFormals, <<S(<<"1">>), S(<<"X">>)>>),
      DefineSyntax(Name("E"),
                   Formals(<<Formal(T(<<"y">>), NoTokens),
                             Formal(S(<<"x">>), NoTokens)>>),
                   <<S(<<"x">>), S(<<"y">>)>>),
      DefineSyntax(Name("G"), Formals(<<Formal(T(<<"y">>), NoTokens)>>),
                   <<S(<<"y">>), S(<<"y">>)>>) }

\* The macro table after the `define directives of the file.
LocTable ==
    [n \in DOMAIN Intrinsics \cup {d.name : d \in LocDefines} |->
        IF n \in DOMAIN Intrinsics THEN Intrinsics[n]
        ELSE MacroDef([(CHOOSE d \in LocDefines : d.name = n)
                          EXCEPT !.body = Located(@, BodyOffset[n])],
                      FALSE, "None")]

\* `B(a)       `B(a b)      `B(`A)         `F(a `A)     `F(a)
\* `F()        `A           `E(a, b)       `E(`A, `B(b))
\* `G(`A)      `__LINE__    `B(`F(a))      `A `F(b)     `B(`G(a))
LocPrograms ==
    { <<T(Use(Name("B"))), LP, T(<<"a">>), RP>>,
      <<T(Use(Name("B"))), LP, T(<<"a">>), S(<<"b">>), RP>>,
      <<T(Use(Name("B"))), LP, T(Use(Name("A"))), RP>>,
      <<T(Use(Name("F"))), LP, T(<<"a">>), S(Use(Name("A"))), RP>>,
      <<T(Use(Name("F"))), LP, T(<<"a">>), RP>>,
      <<T(Use(Name("F"))), LP, RP>>,
      <<T(Use(Name("A")))>>,
      <<T(Use(Name("E"))), LP, T(<<"a">>), CM, S(<<"b">>), RP>>,
      <<T(Use(Name("E"))), LP, T(Use(Name("A"))), CM, S(Use(Name("B"))), LP,
        T(<<"b">>), RP, RP>>,
      <<T(Use(Name("G"))), LP, T(Use(Name("A"))), RP>>,
      <<T(Use(LineName))>>,
      <<T(Use(Name("B"))), LP, T(Use(Name("F"))), LP, T(<<"a">>), RP, RP>>,
      <<T(Use(Name("A"))), S(Use(Name("F"))), LP, T(<<"b">>), RP>>,
      <<T(Use(Name("B"))), LP, T(Use(Name("G"))), LP, T(<<"a">>), RP, RP>> }

\* The longest lookup chain that is followed.
MaxChain == 8

LocInit ==
    /\ macros = LocTable
    /\ stream \in {Located(p, ProgramOffset) : p \in LocPrograms}
    /\ expandedTokens = <<>>
    /\ currentMacroToken = 0
    /\ diagnostics = <<>>
    /\ output = <<>>
    /\ defines = 0
    /\ undefs = 0
    /\ last = NoOp
    /\ buffer = <<>>
    /\ sourceManager = <<>>
    /\ chain = <<>>
    /\ map = EmptyMap
    /\ inserted = <<>>
    /\ walked = NoWalk

\* The next raw token is a macro usage of the source: handleTopLevelMacro.
LocUsage ==
    /\ Pending = <<>>
    /\ stream # <<>>
    /\ isMacroUsage(Head(stream))
    /\ \E o \in {handleTopLevelMacroAt(Head(stream), Tail(stream), sourceManager)} :
        /\ stream' = o.stream
        /\ expandedTokens' = o.expandedTokens
        /\ currentMacroToken' =
               IF o.kind = "expanded" /\ o.expandedTokens # <<>> THEN 1 ELSE 0
        /\ diagnostics' = o.diags
        /\ sourceManager' = o.sm
        /\ last' = [NoOp EXCEPT !.op = "usage", !.kind = o.kind,
                                !.directive = Head(stream),
                                !.actualArgs = o.actualArgs,
                                !.diagsBefore = Len(diagnostics),
                                !.buffersBefore = Len(sourceManager)]
    /\ chain' = <<>>
    /\ UNCHANGED <<macros, output, defines, undefs>>
    /\ UNCHANGED <<imVars, opsVars>>

\* The next raw token is handed on, and the lookup of its location starts.
LocToken ==
    /\ RawTokens # <<>>
    /\ ~isMacroUsage(Head(RawTokens))
    /\ output' = Append(output, Head(RawTokens))
    /\ stream' = Taken(1).stream
    /\ currentMacroToken' = Taken(1).cur
    /\ chain' = <<Head(RawTokens).loc>>
    /\ last' = [last EXCEPT !.op = "token"]
    /\ UNCHANGED <<macros, expandedTokens, diagnostics, defines, undefs,
                   sourceManager>>
    /\ UNCHANGED <<imVars, opsVars>>

\* One step of SourceManager::getFullyOriginalLoc: from a location in an
\* expansion buffer to where its text is spelled.
ResolveOriginal ==
    /\ chain # <<>>
    /\ Len(chain) < MaxChain
    /\ Last(chain).buffer # 0
    /\ chain' = Append(chain, getOriginalLoc(sourceManager, Last(chain)))
    /\ UNCHANGED <<ppVars, sourceManager>>
    /\ UNCHANGED <<imVars, opsVars>>

\* One step of SourceManager::getFullyExpandedLoc: from a location in an
\* expansion buffer to the start of the range it was expanded at.
ResolveExpansion ==
    /\ chain # <<>>
    /\ Len(chain) < MaxChain
    /\ Last(chain).buffer # 0
    /\ chain' = Append(chain, getExpansionRange(sourceManager, Last(chain)).start)
    /\ UNCHANGED <<ppVars, sourceManager>>
    /\ UNCHANGED <<imVars, opsVars>>

LocNext == LocUsage \/ LocToken \/ ResolveOriginal \/ ResolveExpansion

\* The preprocessor over the located programs, and the lookups of the
\* locations it gives.
SpecLoc == LocInit /\ [][LocNext]_vars

(***************************************************************************)
(* One run of appends: MacroExpansion::append(token, macroLoc, firstLoc,   *)
(* expansionRange) called on the tokens of a list one after the other, as  *)
(* expandMacro does over a body and over the tokens of an argument.  The   *)
(* run starts as expandMacro starts it: firstLoc is the location of the    *)
(* first token and macroLoc the expansion location created for it.         *)
(***************************************************************************)
\* The longest list of tokens that is appended.
MaxRun == 3

\* Where the tokens are spelled: in the source file or in one of two
\* expansion buffers that exist already.
RunLocs == {SourceLocation(b, o) : b \in 0..2, o \in 0..1}

\* The lists of tokens; tokens of one buffer that follow each other are in
\* the order of the text.
RunLists ==
    {toks \in UNION {[1..n -> {At(T(<<"a">>), l) : l \in RunLocs}] :
                         n \in 1..MaxRun} :
         \A i \in 1..(Len(toks) - 1) :
             toks[i].loc.buffer = toks[i + 1].loc.buffer
                 => toks[i].loc.offset < toks[i + 1].loc.offset}

\* The usage that is expanded, and the expansion buffers of two earlier
\* usages.
RunUsage == At(T(Use(Name("F"))), SourceLocation(0, 5))

RunBuffers ==
    createExpansionLoc(
        createExpansionLoc(<<>>, SourceLocation(0, 0),
                           SourceRange(SourceLocation(0, 2), SourceLocation(0, 4)),
                           FALSE).sm,
        SourceLocation(1, 0),
        SourceRange(SourceLocation(0, 2), SourceLocation(0, 4)), TRUE).sm

RunInit ==
    /\ macros = LocTable
    /\ buffer \in RunLists
    /\ sourceManager \in
           {createExpansionLoc(RunBuffers, buffer[1].loc,
                               getRange(MacroExpansion(<<>>, RunUsage, TRUE)),
                               isMacroArg).sm : isMacroArg \in BOOLEAN}
    /\ last \in
           {[NoOp EXCEPT !.call.run =
                 [before |-> Run(MacroExpansion(<<>>, RunUsage, isTopLevel),
                                 [sm |-> sourceManager,
                                  loc |-> SourceLocation(Len(sourceManager), 0)],
                                 buffer[1].loc),
                  after |-> Run(MacroExpansion(<<>>, RunUsage, isTopLevel),
                                [sm |-> sourceManager,
                                 loc |-> SourceLocation(Len(sourceManager), 0)],
                                buffer[1].loc)]] : isTopLevel \in BOOLEAN}
    /\ stream = <<>>
    /\ expandedTokens = <<>>
    /\ currentMacroToken = 0
    /\ diagnostics = <<>>
    /\ output = <<>>
    /\ defines = 0
    /\ undefs = 0
    /\ chain = <<>>
    /\ map = EmptyMap
    /\ inserted = <<>>
    /\ walked = NoWalk

\* expansion.append(token, macroLoc, firstLoc, expansion.getRange()) on the
\* next token of the list.
RunAppend ==
    /\ last.op \in {"init", "append"}
    /\ buffer # <<>>
    /\ \E a \in {MacroExpansion_appendAt(last.call.run.after, Head(buffer),
                                         getRange(last.call.run.after.e))} :
           /\ buffer' = Tail(buffer)
           /\ sourceManager' = a.sm
           /\ expandedTokens' = a.e.dest
           /\ last' = [NoOp EXCEPT
                          !.op = "append", !.directive = Head(buffer),
                          !.call.run = [before |-> last.call.run.after,
                                        after |-> a]]
    /\ UNCHANGED <<macros, stream, currentMacroToken, diagnostics, output,
                   defines, undefs, chain>>
    /\ UNCHANGED imVars

RunNext == RunAppend

\* The appends of one run.
SpecRun == RunInit /\ [][RunNext]_vars

(***************************************************************************)
(* applyMacroOps over buffers of slashes, stars, pastes and quotes: the    *)
(* synthetic comment that the paste of / and * opens.                      *)
(***************************************************************************)
\* /   *   ``   X   `"
ComTokens ==
    { T(<<"/">>), T(<<"*">>), T(<<Grave, Grave>>), T(<<"X">>),
      T(<<Grave, DQuote>>) }

\* The buffers of up to MaxTokens + 1 of these tokens, and those that start
\* with a / once more with a space before it.
ComBuffers == UNION {[1..n -> ComTokens] : n \in 1..(MaxTokens + 1)}

ComInit ==
    /\ buffer \in
           ComBuffers
               \cup {[toks EXCEPT ![1] = withTrivia(@, <<WS>>)] :
                        toks \in {t \in ComBuffers : t[1].kind = "Slash"}}
    /\ sourceManager = <<>>
    /\ chain = <<>>
    /\ macros = createBuiltInMacro(Intrinsics, SlangName, 1, <<>>)
    /\ stream = <<>>
    /\ expandedTokens = <<>>
    /\ currentMacroToken = 0
    /\ diagnostics = <<>>
    /\ output = <<>>
    /\ defines = 0
    /\ undefs = 0
    /\ last = NoOp
    /\ map = EmptyMap
    /\ inserted = <<>>
    /\ walked = NoWalk

\* applyMacroOps over every such buffer.
SpecCom == ComInit /\ [][OpsNext]_vars

(***************************************************************************)
(* Path::moveRight and Path::moveLeft on their own, on the paths into the  *)
(* maps that up to MaxInserts inserts make.                                *)
(***************************************************************************)
\* The map after the inserts ivs.
RECURSIVE InsertAll(_, _)
InsertAll(m, ivs) ==
    IF ivs = <<>> THEN m ELSE InsertAll(insert(m, Head(ivs)), Tail(ivs))

PathInit ==
    /\ inserted \in
           {[i \in DOMAIN ivs |-> Interval(ivs[i][1], ivs[i][2], i)] :
                ivs \in UNION {[1..n -> Intervals] : n \in 0..MaxInserts}}
    /\ map = InsertAll(EmptyMap, inserted)
    /\ walked = NoWalk
    /\ macros = createBuiltInMacro(Intrinsics, SlangName, 1, <<>>)
    /\ stream = <<>>
    /\ expandedTokens = <<>>
    /\ currentMacroToken = 0
    /\ diagnostics = <<>>
    /\ output = <<>>
    /\ defines = 0
    /\ undefs = 0
    /\ last = NoOp
    /\ buffer = <<>>
    /\ sourceManager = <<>>
    /\ chain = <<>>

\* path.moveRight(level) on a valid path into the map, and moveLeft(level)
\* on what it leaves.
PathMoveRight ==
    /\ walked.op = "none"
    /\ map.height > 0
    /\ \E path \in MovePaths(map), level \in 1..map.height :
           /\ Path_valid(path)
           /\ \E to \in {Path_moveRight(path, level)} :
                  walked' = [NoWalk EXCEPT
                                !.op = "moveRight",
                                !.move = [from |-> path, level |-> level,
                                          to |-> to,
                                          back |-> Path_moveLeft(to, level)]]
    /\ UNCHANGED <<map, inserted>>
    /\ UNCHANGED <<ppVars, opsVars, locVars>>

\* path.moveLeft(level) on a path into the map, and moveRight(level) on
\* what it leaves unless an ASSERT stopped it.
PathMoveLeft ==
    /\ walked.op = "none"
    /\ map.height > 0
    /\ \E path \in MovePaths(map), level \in 1..map.height :
           \E to \in {Path_moveLeft(path, level)} :
               walked' = [NoWalk EXCEPT
                             !.op = "moveLeft",
                             !.move = [from |-> path, level |-> level,
                                       to |-> to,
                                       back |-> IF to = <<>> THEN <<>>
                                                ELSE Path_moveRight(to, level)]]
    /\ UNCHANGED <<map, inserted>>
    /\ UNCHANGED <<ppVars, opsVars, locVars>>

PathNext == PathMoveRight \/ PathMoveLeft

\* The moves of a path.
SpecPath == PathInit /\ [][PathNext]_vars

(***************************************************************************)
(* distribute on its own: every call with up to MaxNodes nodes of a        *)
(* capacity up to MaxCapacity, with one element and one position more than *)
(* its assertions allow.                                                   *)
(***************************************************************************)
MaxNodes == 3

MaxCapacity == 3

DistInit ==
    /\ walked \in
           {[NoWalk EXCEPT !.dist = [NoDist EXCEPT !.numNodes = n,
                                                   !.numElements = e,
                                                   !.capacity = c,
                                                   !.position = p,
                                                   !.grow = g]] :
                <<n, c, e, p>> \in
                    {q \in (0..MaxNodes) \X (0..MaxCapacity)
                               \X (0..(MaxNodes * MaxCapacity + 1))
                               \X (0..(MaxNodes * MaxCapacity + 2)) :
                        q[3] <= q[1] * q[2] + 1 /\ q[4] <= q[3] + 1},
                g \in BOOLEAN}
    /\ map = EmptyMap
    /\ inserted = <<>>
    /\ buffer = <<>>
    /\ sourceManager = <<>>
    /\ chain = <<>>
    /\ macros = createBuiltInMacro(Intrinsics, SlangName, 1, <<>>)
    /\ stream = <<>>
    /\ expandedTokens = <<>>
    /\ currentMacroToken = 0
    /\ diagnostics = <<>>
    /\ output = <<>>
    /\ defines = 0
    /\ undefs = 0
    /\ last = NoOp

\* distribute(numNodes, numElements, capacity, newSizes, position, grow).
DistApply ==
    /\ walked.op = "none"
    /\ \E r \in {distribute(walked.dist.numNodes, walked.dist.numElements,
                            walked.dist.capacity, walked.dist.position,
                            walked.dist.grow)} :
           walked' = [walked EXCEPT !.op = "distribute",
                                    !.dist.newSizes = r.newSizes,
                                    !.dist.posPair = r.posPair,
                                    !.dist.asserts = r.asserts]
    /\ UNCHANGED <<map, inserted>>
    /\ UNCHANGED <<ppVars, opsVars, locVars>>

DistNext == DistApply

\* The calls of distribute.
SpecDist == DistInit /\ [][DistNext]_vars

(***************************************************************************)
(* The functions of the macro engine on their own.                         *)
(***************************************************************************)
\* `define K 1           `define R `R          `define M `K x
\* `define F(y) y        `define D(y) y y      `define N(y) 1
\* `define G(a, b = 2) a b                     `define E(a, b) a b
\* `define C(a, b) a<tab>b x                   `define P(a) `define X a
\*                                                          a
ExpDefines ==
    { DefineSyntax(Name("K"), NoFormals, <<S(<<"1">>)>>),
      DefineSyntax(Name("R"), NoFormals, <<S(Use(Name("R")))>>),
      DefineSyntax(Name("M"), NoFormals, <<S(Use(Name("K"))), S(<<"x">>)>>),
      DefineSyntax(Name("F"), Formals(<<Formal(T(<<"y">>), NoTokens)>>),
                   <<S(<<"y">>)>>),
      DefineSyntax(Name("D"), Formals(<<Formal(T(<<"y">>), NoTokens)>>),
                   <<S(<<"y">>), S(<<"y">>)>>),
      DefineSyntax(Name("N"), Formals(<<Formal(T(<<"y">>), NoTokens)>>),
                   <<S(<<"1">>)>>),
      DefineSyntax(Name("G"),
                   Formals(<<Formal(T(<<"a">>), NoTokens),
                             Formal(S(<<"b">>), SomeTokens(<<S(<<"2">>)>>))>>),
                   <<S(<<"a">>), S(<<"b">>)>>),
      DefineSyntax(Name("E"),
                   Formals(<<Formal(T(<<"a">>), NoTokens),
                             Formal(S(<<"b">>), NoTokens)>>),
                   <<S(<<"a">>), S(<<"b">>)>>),
      DefineSyntax(Name("C"),
                   Formals(<<Formal(T(<<"a">>), NoTokens),
                             Formal(S(<<"b">>), NoTokens)>>),
                   <<S(<<"a">>), LexTok(<<TAB>>, <<"b">>), S(<<"x">>)>>),
      DefineSyntax(Name("P"), Formals(<<Formal(T(<<"a">>), NoTokens)>>),
                   <<T(Use(DefineText)), S(<<"X">>), S(<<"a">>),
                     LexTok(<<EOL>>, <<"a">>)>>) }

\* The macro table after these `define directives.
ExpTable ==
    [n \in DOMAIN Intrinsics \cup {d.name : d \in ExpDefines} |->
        IF n \in DOMAIN Intrinsics THEN Intrinsics[n]
        ELSE MacroDef(CHOOSE d \in ExpDefines : d.name = n, FALSE, "None")]

Usage(c) == T(Use(Name(c)))

\* `K          `R          `M           `U          `U(1)       `F(1)
\* `F(`K)      `F(`R)      `F           `F(1, 2)    `D(`F)      `D(`K)
\* `N(`R)      `N(`F)      `G(1)        `G(,)       `G(,3)      `E(1)
\* `E(,1)      `E(1,)      `D((1,2))    `F([1       [(]),1      {1,2},3
\* ```X        ```define1  X``Y         `"\a`"`A``B
\* `C(1,)      `C(,)       and, with <> for an empty argument after a space
\* and <t> for one after a tab:   <><t>X      `"<> X`"      /``*<>X
\* and, with | for the end of a line:   `P(1 |2)   `P(|1 2)   `P(`P(1 |2))
ExpUses ==
    { <<Usage("P"), LP, T(<<"1">>), LexTok(<<WS, EOL>>, <<"2">>), RP>>,
      <<Usage("P"), LP, LexTok(<<EOL>>, <<"1">>), S(<<"2">>), RP>>,
      <<Usage("P"), LP, Usage("P"), LP, T(<<"1">>),
        LexTok(<<WS, EOL>>, <<"2">>), RP, RP>>,
      <<Usage("C"), LP, T(<<"1">>), CM, RP>>,
      <<Usage("C"), LP, CM, RP>>,
      <<Tok("EmptyMacroArgument", <<WS>>, <<>>, "None"),
        Tok("EmptyMacroArgument", <<TAB>>, <<>>, "None"), T(<<"X">>)>>,
      <<T(<<Grave, DQuote>>), Tok("EmptyMacroArgument", <<WS>>, <<>>, "None"),
        S(<<"X">>), T(<<Grave, DQuote>>)>>,
      <<T(<<"/">>), T(<<Grave, Grave>>), T(<<"*">>),
        Tok("EmptyMacroArgument", <<WS>>, <<>>, "None"), T(<<"X">>)>>,
      <<Usage("K")>>, <<Usage("R")>>, <<Usage("M")>>, <<Usage("U")>>,
      <<Usage("U"), LP, T(<<"1">>), RP>>,
      <<Usage("F"), LP, T(<<"1">>), RP>>,
      <<Usage("F"), LP, Usage("K"), RP>>,
      <<Usage("F"), LP, Usage("R"), RP>>,
      <<Usage("F")>>,
      <<Usage("F"), LP, T(<<"1">>), CM, S(<<"2">>), RP>>,
      <<Usage("D"), LP, Usage("F"), RP>>,
      <<Usage("D"), LP, Usage("K"), RP>>,
      <<Usage("N"), LP, Usage("R"), RP>>,
      <<Usage("N"), LP, Usage("F"), RP>>,
      <<Usage("G"), LP, T(<<"1">>), RP>>,
      <<Usage("G"), LP, CM, RP>>,
      <<Usage("G"), LP, CM, T(<<"3">>), RP>>,
      <<Usage("E"), LP, T(<<"1">>), RP>>,
      <<Usage("E"), LP, CM, T(<<"1">>), RP>>,
      <<Usage("E"), LP, T(<<"1">>), CM, RP>>,
      <<Usage("D"), LP, LP, T(<<"1">>), CM, T(<<"2">>), RP, RP>>,
      <<Usage("F"), LP, T(<<"[">>), T(<<"1">>)>>,
      <<T(<<"[">>), LP, T(<<"]">>), RP, CM, T(<<"1">>)>>,
      <<T(<<"{">>), T(<<"1">>), CM, T(<<"2">>), T(<<"}">>), CM, T(<<"3">>)>>,
      <<T(<<Grave>>), T(<<Grave, Grave>>), T(<<"X">>)>>,
      <<T(<<Grave>>), T(<<Grave, Grave>>), T(DefineText), T(<<"1">>)>>,
      <<T(<<"X">>), T(<<Grave, Grave>>), T(<<"Y">>)>>,
      <<T(<<Grave, DQuote>>),
        T(<<Backslash, "a", Grave, DQuote, Grave, "A", Grave, Grave, "B">>)>> }

\* What stands before and after them in the buffer.
ExpBefore == { <<>>, <<T(<<"x">>)>>, <<Usage("U")>> }

ExpAfter == { <<>>, <<S(<<"y">>)>>, <<S(Use(Name("K")))>>,
              <<LexTok(<<EOL>>, <<"y">>)>> }

\* The source text behind the buffer:   nothing      (2) z       z
ExpStreams ==
    { <<>>, <<LP, T(<<"2">>), RP, S(<<"z">>)>>, <<S(<<"z">>)>> }

\* The sets alreadyExpanded is at a call.
ExpSets == { {}, {Name("K")}, {Name("F")} }

\* A token buffer and the source text behind it, in a preprocessor whose
\* table holds the macros above.
ExpInit ==
    /\ macros = ExpTable
    /\ buffer \in {b \o u \o a : b \in ExpBefore, u \in ExpUses, a \in ExpAfter}
    /\ stream \in ExpStreams
    /\ expandedTokens = <<>>
    /\ currentMacroToken = 0
    /\ diagnostics = <<>>
    /\ output = <<>>
    /\ defines = 0
    /\ undefs = 0
    /\ last = NoOp
    /\ sourceManager = <<>>
    /\ chain = <<>>
    /\ map = EmptyMap
    /\ inserted = <<>>
    /\ walked = NoWalk

\* expandReplacementList(tokens, alreadyExpanded) on the buffer.
ExpList ==
    /\ last.op = "init"
    /\ \E ae \in ExpSets :
       \E r \in {expandReplacementList(buffer, ae, World(stream, diagnostics),
                                       {})} :
           /\ expandedTokens' = r.tokens
           /\ stream' = r.w.stream
           /\ diagnostics' = r.w.diags
           /\ last' = [NoOp EXCEPT
                          !.op = "list", !.kind = r.div,
                          !.call = [NoCall EXCEPT
                                       !.ret = r.ok, !.entry = ae,
                                       !.exit = r.alreadyExpanded,
                                       !.expandedSomething = r.expandedSomething,
                                       !.at = World(stream, diagnostics)]]
    /\ UNCHANGED <<macros, currentMacroToken, output, defines, undefs>>
    /\ UNCHANGED <<imVars, opsVars, locVars>>

\* The buffer starts with the usage of a macro: its actual arguments are
\* parsed if it takes any, and expandMacro is called.
ExpUsage ==
    /\ last.op = "init"
    /\ buffer # <<>>
    /\ isMacroUsage(Head(buffer))
    /\ valid(findMacro(Head(buffer)))
    /\ \E pa \in {IF needsArgs(findMacro(Head(buffer)))
                  THEN parseActualArgumentList(
                           Parser(Tail(buffer), World(stream, diagnostics)),
                           Head(buffer))
                  ELSE [list |-> NoArgs,
                        p |-> Parser(Tail(buffer), World(stream, diagnostics))]} :
       /\ needsArgs(findMacro(Head(buffer))) => pa.list.present
       /\ \E em \in {expandMacro(findMacro(Head(buffer)),
                                 MacroExpansion(<<>>, Head(buffer), FALSE),
                                 pa.list, ParserWorld(pa.p), {})} :
           /\ expandedTokens' = em.e.dest
           /\ stream' = em.w.stream
           /\ diagnostics' = em.w.diags
           /\ last' = [NoOp EXCEPT
                          !.op = "macro", !.kind = em.div,
                          !.directive = Head(buffer),
                          !.actualArgs = pa.list,
                          !.call = [NoCall EXCEPT
                                       !.ret = em.ok, !.pre = em.pre,
                                       !.map = em.map,
                                       !.at = ParserWorld(pa.p)]]
    /\ UNCHANGED <<macros, currentMacroToken, output, defines, undefs>>
    /\ UNCHANGED <<imVars, opsVars, locVars>>

\* parseTokenList(allowNewlines) on the buffer and the source behind it.
ExpParse ==
    /\ last.op = "init"
    /\ \E allowNewlines \in BOOLEAN :
       \E r \in {parseTokenList(Parser(buffer, World(stream, diagnostics)),
                                allowNewlines)} :
           /\ expandedTokens' = r.tokens
           /\ stream' = r.p.stream
           /\ diagnostics' = r.p.diags
           /\ last' = [NoOp EXCEPT
                          !.op = "parse",
                          !.kind = IF allowNewlines THEN "newlines" ELSE "line",
                          !.call = [NoCall EXCEPT
                                       !.expected = r.expected,
                                       !.at = World(stream, diagnostics)]]
    /\ UNCHANGED <<macros, currentMacroToken, output, defines, undefs>>
    /\ UNCHANGED <<imVars, opsVars, locVars>>

\* applyMacroOps on the tokens that expandMacro returned; buffer holds the
\* tokens it was called on.
ExpOps ==
    /\ last.op = "macro"
    /\ last.kind = "no"
    /\ last.call.ret
    /\ \E garbage \in Garbage :
       \E r \in {applyMacroOps(expandedTokens, <<>>, diagnostics, garbage)} :
           /\ buffer' = expandedTokens
           /\ expandedTokens' = r.dest
           /\ diagnostics' = r.diags
           /\ last' = [NoOp EXCEPT !.op = "ops", !.ub = r.ub,
                                   !.kind = IF r.anyNewMacros THEN "new"
                                            ELSE "none",
                                   !.call = [NoCall EXCEPT !.made = r.made,
                                                            !.steps = r.steps]]
    /\ UNCHANGED <<macros, stream, currentMacroToken, output, defines, undefs>>
    /\ UNCHANGED <<imVars, locVars>>

\* The calls of a MacroParser: next(), peek(), consume() and expect(kind).
ParserCalls ==
    {[op |-> "next", kind |-> "None"], [op |-> "peek", kind |-> "None"],
     [op |-> "consume", kind |-> "None"],
     [op |-> "expect", kind |-> "OpenParenthesis"],
     [op |-> "expect", kind |-> "CloseParenthesis"]}

ParserCall(p, c) ==
    CASE c.op = "next" -> MacroParser_next(p)
      [] c.op = "peek" -> [tok |-> MacroParser_peek(p), p |-> p]
      [] c.op = "consume" -> MacroParser_consume(p)
      [] OTHER -> MacroParser_expect(p, c.kind)

\* One call of a MacroParser over the buffer that stands at its first
\* token, at its last token or behind it.
ExpParser ==
    /\ last.op = "init"
    /\ \E c \in ParserCalls :
       \E idx \in {1, Len(buffer), Len(buffer) + 1} \ {0} :
       \E p \in {[Parser(buffer, World(stream, diagnostics)) EXCEPT !.idx = idx]} :
       \E r \in {ParserCall(p, c)} :
           /\ stream' = r.p.stream
           /\ diagnostics' = r.p.diags
           /\ last' = [NoOp EXCEPT
                          !.op = "parser", !.kind = c.op,
                          !.directive = r.tok,
                          !.call = [NoCall EXCEPT
                                       !.expected = <<c.kind>>,
                                       !.parser = [before |-> p, after |-> r.p],
                                       !.at = World(stream, diagnostics)]]
    /\ UNCHANGED <<macros, expandedTokens, currentMacroToken, output, defines,
                   undefs>>
    /\ UNCHANGED <<imVars, opsVars, locVars>>

ExpNext == ExpList \/ ExpUsage \/ ExpParse \/ OpsApply \/ ExpOps \/ ExpParser

\* expandReplacementList, expandMacro, parseTokenList and applyMacroOps, each
\* called once on a buffer.
SpecExp == ExpInit /\ [][ExpNext]_vars

(***************************************************************************)
(* Properties of macro expansion.                                          *)
(***************************************************************************)
\* The name a usage directive looks up.
UsageName(directive) ==
    IF Len(directive.text) >= 2 /\ directive.text[2] = Backslash
    THEN Tail(Tail(directive.text)) ELSE Tail(directive.text)

Count(seq, x) == Cardinality({i \in DOMAIN seq : seq[i] = x})

\* The diagnostics the last usage added.
NewDiags == SubSeq(diagnostics, last.diagsBefore + 1, Len(diagnostics))

\* The macros whose usages stand in the body of macro n.
BodyRefs(n) ==
    {m \in DOMAIN macros :
        \E i \in DOMAIN macros[n].syntax.body :
            /\ isMacroUsage(macros[n].syntax.body[i])
            /\ UsageName(macros[n].syntax.body[i]) = m}

RECURSIVE Reach(_, _)
Reach(names, k) ==
    IF k = 0 THEN names
    ELSE Reach(names \cup UNION {BodyRefs(n) : n \in names}, k - 1)

\* Macro n refers to macro m, directly or through other macros.
RefersTo(n, m) ==
    n \in DOMAIN macros /\ m \in Reach(BodyRefs(n), Cardinality(DOMAIN macros))

MutuallyRecursive(n) ==
    \E m \in DOMAIN macros \ {n} : RefersTo(n, m) /\ RefersTo(m, n)

\* C1: the expansion of a top-level usage never recurses without end: a chain
\* of references that leads back to a macro under expansion, also one that
\* passes through a pre-expanded actual argument, ends with a diagnostic.
C1_NoUnboundedRecursion ==
    last.op = "usage" => last.kind # "recursion"

\* C2: the top-level usage of a macro that refers to another macro which
\* refers back to it adds exactly one RecursiveMacro diagnostic and queues
\* no token.
C2_OneRecursiveMacroDiagnostic ==
    (last.op = "usage" /\ MutuallyRecursive(UsageName(last.directive))) =>
        /\ Count(NewDiags, "RecursiveMacro") = 1
        /\ currentMacroToken = 0

\* C3: after a top-level usage that expanded, expandedTokens holds no
\* MacroQuote, MacroPaste or EmptyMacroArgument token.
C3_NoMacroOpsQueued ==
    (last.op = "usage" /\ last.kind = "expanded") =>
        \A i \in DOMAIN expandedTokens :
            expandedTokens[i].kind
                \notin {"MacroQuote", "MacroPaste", "EmptyMacroArgument"}

\* C4: the fixpoint loop of handleTopLevelMacro is left after finitely many
\* iterations, also when pasting makes new macro usages.
C4_FixpointLoopExits ==
    last.op = "usage" => last.kind # "loop"

\* The macro of the last usage and what expandMacro makes of it.
UsedMacro == findMacro(last.directive)

UsedFormals == UsedMacro.syntax.formalArguments

UsedExpansion ==
    expandMacro(UsedMacro, MacroExpansion(<<>>, last.directive, TRUE),
                last.actualArgs, World(<<>>, <<>>), {})

\* expandMacro was called for the last usage, with a function-like macro.
ArgsMatched ==
    /\ last.op = "usage"
    /\ last.kind \notin {"unknown", "assert", "noargs"}
    /\ ~isIntrinsic(UsedMacro)
    /\ UsedMacro.syntax.body # <<>>
    /\ UsedFormals.present

TooManyActuals == Len(last.actualArgs.args) > Len(UsedFormals.args)

MissingActual ==
    /\ ~TooManyActuals
    /\ \E i \in DOMAIN UsedFormals.args :
           i > Len(last.actualArgs.args)
           /\ ~UsedFormals.args[i].defaultValue.present

\* The usage failed with this diagnostic alone, before expandMacro appended
\* a token, and nothing is queued.
FailedWith(code) ==
    /\ NewDiags = <<code>>
    /\ last.kind = "failed"
    /\ currentMacroToken = 0
    /\ ~UsedExpansion.ok
    /\ UsedExpansion.e.dest = <<>>

RECURSIVE GroupEnd(_, _, _)
GroupEnd(toks, i, depth) ==
    IF i > Len(toks) THEN Len(toks)
    ELSE IF toks[i].kind = "OpenParenthesis" THEN GroupEnd(toks, i + 1, depth + 1)
    ELSE IF toks[i].kind # "CloseParenthesis" THEN GroupEnd(toks, i + 1, depth)
    ELSE IF depth = 1 THEN i
    ELSE GroupEnd(toks, i + 1, depth - 1)

\* The tokens left after a usage of an unknown name before toks.
AfterUnknown(toks) ==
    IF toks # <<>> /\ toks[1].kind = "OpenParenthesis"
    THEN SubSeq(toks, GroupEnd(toks, 1, 0) + 1, Len(toks))
    ELSE toks

\* C10: the top-level usage of a name that is not in the macro table adds
\* one UnknownDirective diagnostic, takes the parenthesised list after it
\* exactly if the next token is an open parenthesis, and leaves the macro
\* table and the queued tokens alone.
C10_UnknownUsage ==
    [][(last'.op = "usage" /\ ~valid(findMacro(Head(RawTokens)))) =>
           /\ Count(diagnostics', "UnknownDirective")
                  = Count(diagnostics, "UnknownDirective") + 1
           /\ macros' = macros
           /\ expandedTokens' = expandedTokens
           /\ RawTokens' = AfterUnknown(Tail(RawTokens))]_ppVars

\* The usage of an unknown name was followed by a list of two arguments.
C10_Witness ==
    /\ last.op = "usage"
    /\ last.kind = "unknown"
    /\ last.actualArgs.present
    /\ Len(last.actualArgs.args) = 2

\* The diagnostics a step adds.
Added(before, after) == SubSeq(after, Len(before) + 1, Len(after))

\* The names the constructor defines: the intrinsics and the tool's values.
BuiltInNames == {LineName, FileName, SlangName}

\* C11: an `undef of a built-in macro adds the one diagnostic
\* UndefineBuiltinDirective and leaves the macro table as it was; an `undef
\* without operand adds the one diagnostic ExpectedIdentifier; no `undef
\* adds both, and the tokens after the directive are still processed.
C11_UndefErrors ==
    [][last'.op = "undef" =>
           /\ (IsTok(last'.directive)
               /\ valueText(last'.directive) \in BuiltInNames)
              => (/\ Added(diagnostics, diagnostics')
                        = <<"UndefineBuiltinDirective">>
                  /\ macros' = macros)
           /\ ~IsTok(last'.directive)
              => (/\ Added(diagnostics, diagnostics') = <<"ExpectedIdentifier">>
                  /\ macros' = macros)
           /\ Len(Added(diagnostics, diagnostics')) <= 1
           /\ stream' = stream
           /\ ~Stopped']_ppVars

\* `undef __slang__ before a macro usage: one diagnostic, and the macro the
\* tool defined is still in the table.
C11_Witness ==
    /\ last.op = "undef"
    /\ last.directive = T(SlangName)
    /\ diagnostics = <<"UndefineBuiltinDirective">>
    /\ macros[SlangName].builtIn
    /\ SlangName \in DOMAIN macros
    /\ stream # <<>>

\* Two tokens agree in kind, raw text and trivia.
SameTok(a, b) ==
    /\ a.kind = b.kind
    /\ a.text = b.text
    /\ Len(a.trivia) = Len(b.trivia)
    /\ \A i \in DOMAIN a.trivia :
           a.trivia[i].kind = b.trivia[i].kind
           /\ a.trivia[i].text = b.trivia[i].text

SameToks(x, y) ==
    Len(x) = Len(y) /\ \A i \in DOMAIN x : SameTok(x[i], y[i])

\* Two definitions agree in what C12 lists.
Agree(l, r) ==
    /\ l.formalArguments.present = r.formalArguments.present
    /\ Len(l.formalArguments.args) = Len(r.formalArguments.args)
    /\ \A i \in DOMAIN l.formalArguments.args :
           LET la == l.formalArguments.args[i]
               ra == r.formalArguments.args[i]
           IN  /\ SameTok(la.name, ra.name)
               /\ la.defaultValue.present = ra.defaultValue.present
               /\ SameToks(la.defaultValue.tokens, ra.defaultValue.tokens)
    /\ SameToks(l.body, r.body)

\* What C12 says of a definition that replaces another.
SameMacroLaws(old, new) ==
    /\ isSameMacro(old, new) <=> Agree(old, new)
    /\ isSameMacro(new, old) <=> isSameMacro(old, new)
    /\ isSameMacro(new, new)
    /\ isSameMacro(old, new) =>
           \A e \in Redefinitions : isSameMacro(new, e) => isSameMacro(old, e)

\* C12: isSameMacro holds exactly of definitions that agree in the presence
\* and number of formals, each formal's name and default, and the body,
\* tokens compared by kind, raw text and trivia and not by location; it is
\* reflexive, symmetric and transitive, and a redefinition is warned about
\* exactly if it does not hold of the old and the new definition.
C12_SameMacro ==
    [][last'.op = "define" =>
           LET name == valueText(last'.directive)
           IN  IF name \in DOMAIN macros
               THEN /\ SameMacroLaws(macros[name].syntax, macros'[name].syntax)
                    /\ Added(diagnostics, diagnostics') =
                           IF Agree(macros[name].syntax, macros'[name].syntax)
                           THEN <<>> ELSE <<"RedefiningMacro">>
               ELSE diagnostics' = diagnostics]_ppVars

\* F was defined, redefined with another default, which was warned about,
\* and redefined with the same tokens at other places, which was not.
C12_Witness ==
    /\ last.op = "define"
    /\ defines = 3
    /\ diagnostics = <<"RedefiningMacro">>
    /\ last.diagsBefore = 1
    /\ Name("F") \in DOMAIN macros
    /\ macros[Name("F")].syntax = DefineF(20)

\* The usages among the queued tokens.
QueuedUsages ==
    {i \in DOMAIN expandedTokens : isMacroUsage(expandedTokens[i])}

RecursionReported ==
    /\ last'.op = "usage"
    /\ \E i \in DOMAIN Added(diagnostics, diagnostics') :
           Added(diagnostics, diagnostics')[i] = "RecursiveMacro"

\* C14 as stated: when RecursiveMacro is reported the expansion is given up
\* as a whole, and the directive token of the top-level usage is put out as
\* it was.
C14_UsageTokenEmitted ==
    (last.op = "usage" /\ Count(NewDiags, "RecursiveMacro") > 0) =>
        /\ last.kind = "failed"
        /\ \/ Pending = <<last.directive>>
           \/ (output # <<>> /\ Last(output) = last.directive)

\* C14 with the recovery the code has: when RecursiveMacro is reported it is
\* the one and last diagnostic of the usage, every level up to
\* handleTopLevelMacro returns at once, and no token is queued or put out,
\* the directive token of the usage included.
C14_RecursionAbortsUsage ==
    [][RecursionReported =>
           /\ last'.kind = "failed"
           /\ Count(Added(diagnostics, diagnostics'), "RecursiveMacro") = 1
           /\ Last(diagnostics') = "RecursiveMacro"
           /\ currentMacroToken' = 0
           /\ Pending' = <<>>
           /\ output' = output
           /\ macros' = macros]_ppVars

\* `A with `define A `B and `define B `A: the recursion was found two
\* levels below the top-level usage.
C14_Witness ==
    /\ last.op = "usage"
    /\ last.kind = "failed"
    /\ NewDiags = <<"RecursiveMacro">>
    /\ MutuallyRecursive(UsageName(last.directive))
    /\ currentMacroToken = 0

\* The raw texts of tokens.
Texts(toks) == [i \in DOMAIN toks |-> toks[i].text]

\* The errors of a macro usage: a missing argument list, a wrong number of
\* arguments, a recursion.
UsageErrors ==
    {"ExpectedMacroArgs", "TooManyActualMacroArgs", "NotEnoughMacroArgs",
     "RecursiveMacro"}

\* The step is a top-level usage that returned after one of the errors was
\* reported.
ErrorReported ==
    /\ last'.op = "usage"
    /\ last'.kind \notin {"recursion", "loop", "assert", "depth", "iterations"}
    /\ \E i \in DOMAIN Added(diagnostics, diagnostics') :
           Added(diagnostics, diagnostics')[i] \in UsageErrors

\* C19: an error inside the expansion of a top-level usage, at whatever
\* depth, ends that usage only: handleTopLevelMacro returns, no token is
\* queued and currentMacroToken is not set, the macro table is what it was,
\* and the usage that follows in the source expands as it would have had the
\* failed one not been processed.
C19_ErrorAbortsUsage ==
    /\ [][ErrorReported =>
               /\ last'.kind \in {"failed", "noargs"}
               /\ currentMacroToken' = 0
               /\ Pending' = <<>>
               /\ macros' = macros]_ppVars
    /\ [][(last.later # {} /\ last'.op = "usage")
               => LaterUsage(last'.kind, diagnostics, diagnostics', stream',
                             expandedTokens', currentMacroToken')
                      \in last.later]_ppVars

\* `F(1, 2) `F(1) with `define F(y) y: the first usage failed with
\* TooManyActualMacroArgs, the second one has queued its 1.
C19_Witness ==
    /\ last.op = "usage"
    /\ last.kind = "expanded"
    /\ UsageName(last.directive) = Name("F")
    /\ diagnostics = <<"TooManyActualMacroArgs">>
    /\ Texts(expandedTokens) = <<<<"1">>>>
    /\ currentMacroToken = 1
    /\ stream = <<>>
    /\ output = <<>>

\* C25: when applyMacroOps concatenates for a MacroPaste, in the course of
\* a top-level usage, dest holds a token: dest.back() is never read on an
\* empty dest.
C25_PasteDestNonEmpty ==
    (last.op = "usage" /\ last.kind \in {"expanded", "failed"}) => ~last.ub

\* C26: handleTopLevelMacro is never entered for a macro of the table while
\* tokens of an expansion are queued: ASSERT(!currentMacroToken) holds.
C26_AssertNeverFires ==
    last.op = "usage" => last.kind # "assert"

(***************************************************************************)
(* Properties of applyMacroOps.                                            *)
(***************************************************************************)
\* The places of the tokens of a kind in the buffer.
Places(kind) == {i \in DOMAIN buffer : buffer[i].kind = kind}

Max(set) == CHOOSE x \in set : \A y \in set : y <= x

\* The buffer ends inside a stringification: its last MacroQuote opens one.
\* (No token of the buffers is an escaped identifier that holds a quote.)
StringifyOpen == Cardinality(Places("MacroQuote")) % 2 = 1

OpenQuote == Max(Places("MacroQuote"))

\* What applyMacroOps can put out for a buffer.
DestOf(tokens) ==
    {applyMacroOps(tokens, <<>>, <<>>, garbage).dest : garbage \in Garbage}

\* C15 as stated: at the end of a buffer that leaves a stringification open
\* applyMacroOps reports ExpectedMacroStringifyEnd once and puts out the
\* tokens it had collected for the string, so that none is lost; here for
\* the buffers that hold nothing but identifiers after the opening quote.
C15_StringifyFlushed ==
    (last.op = "ops" /\ StringifyOpen
     /\ \A i \in OpenQuote + 1..Len(buffer) : buffer[i].kind = "Identifier")
    => /\ Count(diagnostics, "ExpectedMacroStringifyEnd") = 1
       /\ Len(expandedTokens) >= Len(buffer) - OpenQuote
       /\ SubSeq(Texts(expandedTokens),
                 Len(expandedTokens) - (Len(buffer) - OpenQuote) + 1,
                 Len(expandedTokens))
              = SubSeq(Texts(buffer), OpenQuote + 1, Len(buffer))

\* C15 with what the code does: ExpectedMacroStringifyEnd is reported once,
\* as the last diagnostic, and the opening quote and the tokens collected
\* after it are dropped: the output is that of the buffer before the quote.
C15_StringifyDropped ==
    (last.op = "ops" /\ StringifyOpen)
    => /\ Count(diagnostics, "ExpectedMacroStringifyEnd") = 1
       /\ Last(diagnostics) = "ExpectedMacroStringifyEnd"
       /\ expandedTokens \in DestOf(SubSeq(buffer, 1, OpenQuote - 1))

\* X `" Y Y: the X was put out, the two Y were collected and dropped.
C15_Witness ==
    /\ last.op = "ops"
    /\ StringifyOpen
    /\ OpenQuote = 2
    /\ Len(buffer) = 4
    /\ \A i \in {1, 3, 4} : buffer[i].kind = "Identifier"
    /\ Texts(expandedTokens) = <<<<"X">>>>
    /\ diagnostics = <<"ExpectedMacroStringifyEnd">>

\* The buffer before place k leaves no stringification open.  (None of the
\* buffers opens a synthetic comment.)
Outside(k) == Cardinality({i \in Places("MacroQuote") : i < k}) % 2 = 0

\* The one MacroPaste of a buffer that holds exactly one.
ThePaste == CHOOSE k \in Places("MacroPaste") : TRUE

\* Trivia of empty arguments is pending at place k: an empty argument with
\* trivia stands right before it.
PendingAt(k) ==
    k > 1 /\ buffer[k - 1].kind = "EmptyMacroArgument"
    /\ buffer[k - 1].trivia # <<>>

\* The conditions of C16 for the paste at place k.
IgnoredAt(k) ==
    \/ k = 1
    \/ k = Len(buffer)
    \/ buffer[k].trivia # <<>>
    \/ buffer[k + 1].trivia # <<>>
    \/ PendingAt(k)

\* The places of the output at which two tokens follow each other that are
\* the buffer's tokens at k - 1 and k + 1, the second one under the trivia
\* the paste and the empty arguments before it left.
NeighboursAt(k) ==
    {j \in 1..Len(expandedTokens) - 1 :
        /\ expandedTokens[j].kind = buffer[k - 1].kind
        /\ expandedTokens[j].text = buffer[k - 1].text
        /\ expandedTokens[j + 1] =
               withTrivia(buffer[k + 1],
                          buffer[k].trivia \o buffer[k + 1].trivia)}

\* C16: a MacroPaste that is first or last in the buffer, has trivia, stands
\* before a token with trivia or comes while trivia of empty arguments is
\* pending is ignored: it gives one IgnoredMacroPaste diagnostic, nothing is
\* concatenated, and its neighbours are put out as two tokens, the second
\* one under the trivia of the paste.
C16_IgnoredPaste ==
    (last.op = "ops" /\ Cardinality(Places("MacroPaste")) = 1
     /\ IgnoredAt(ThePaste))
    => /\ Count(diagnostics, "IgnoredMacroPaste") = 1
       /\ \A j \in DOMAIN expandedTokens :
              expandedTokens[j].kind = "Identifier"
                  => expandedTokens[j].text \in {<<"X">>, <<"Y">>}
       /\ (/\ 1 < ThePaste /\ ThePaste < Len(buffer) /\ Outside(ThePaste)
           /\ buffer[ThePaste - 1].kind = "Identifier"
           /\ buffer[ThePaste + 1].kind = "Identifier")
          => NeighboursAt(ThePaste) # {}

\* X <space>`` Y: one diagnostic, and X and <space>Y are put out.
C16_Witness ==
    /\ last.op = "ops"
    /\ Len(buffer) = 3
    /\ buffer[2] = S(<<Grave, Grave>>)
    /\ buffer[1] = T(<<"X">>)
    /\ buffer[3] = T(<<"Y">>)
    /\ expandedTokens = <<T(<<"X">>), S(<<"Y">>)>>
    /\ diagnostics = <<"IgnoredMacroPaste">>

\* The buffer without its token at place k.
Drop(tokens, k) == SubSeq(tokens, 1, k - 1) \o SubSeq(tokens, k + 1, Len(tokens))

\* The kinds and the raw texts of tokens.
KindsTexts(toks) == [i \in DOMAIN toks |-> <<toks[i].kind, toks[i].text>>]

\* The MacroPaste at place k has whitespace on one of its sides.
Bordered(k) ==
    \/ buffer[k].trivia # <<>>
    \/ k < Len(buffer) /\ buffer[k + 1].trivia # <<>>

\* applyMacroOps puts out for the buffer what it puts out for the buffer
\* without the token at place k, as far as kinds and raw texts go.
AsDropped(k) ==
    KindsTexts(expandedTokens)
        \in {KindsTexts(dest) : dest \in DestOf(Drop(buffer, k))}

\* The MacroPaste at place k directly follows a concatenation: the paste at
\* k - 2 joined the identifiers around it.
AfterConcat(k) ==
    /\ k = 4
    /\ buffer[2].kind = "MacroPaste"
    /\ buffer[1].kind = "Identifier" /\ buffer[3].kind = "Identifier"
    /\ buffer[2].trivia = <<>> /\ buffer[3].trivia = <<>>

Apart(k) ==
    /\ \A i \in Places("MacroPaste") : i >= k
    /\ k < Len(buffer) => buffer[k + 1].kind # "MacroPaste"

Within(loc, n) == loc.buffer \in 0..n /\ loc.offset >= 0

\* C18: every token an expansion emits has its location in the source file
\* or in an expansion buffer made during this expansion; an expansion buffer
\* refers, by its original location and by its expansion range, to buffers
\* made before it only, so that every lookup of original locations and
\* expansion ranges goes down through the buffers and ends in the source
\* file.
C18_LocationsResolve ==
    /\ \A i \in DOMAIN sourceManager :
           /\ Within(sourceManager[i].originalLoc, i - 1)
           /\ Within(sourceManager[i].expansionRange.start, i - 1)
           /\ Within(sourceManager[i].expansionRange.end, i - 1)
    /\ last.kind = "expanded" =>
           \A k \in DOMAIN expandedTokens :
               /\ Within(expandedTokens[k].loc, Len(sourceManager))
               /\ expandedTokens[k].loc.buffer \notin 1..last.buffersBefore
    /\ \A k \in 1..Len(chain) - 1 : chain[k + 1].buffer < chain[k].buffer
    /\ Len(chain) = MaxChain => Last(chain).buffer = 0

\* A token that went through a macro argument twice was handed on, and the
\* lookup of its location came to the source file in three steps or more.
C18_Witness ==
    /\ last.op = "token"
    /\ Len(chain) >= 4
    /\ chain[1] = Last(output).loc
    /\ Last(chain).buffer = 0
    /\ \E i \in DOMAIN sourceManager :
           sourceManager[i].originalLoc.buffer # 0

\* The expansion buffers a location is spelled through, down to the file.
RECURSIVE SpellingRecords(_)
SpellingRecords(loc) ==
    IF loc.buffer = 0 THEN <<>>
    ELSE <<sourceManager[loc.buffer]>>
         \o SpellingRecords(getOriginalLoc(sourceManager, loc))

\* SourceManager::getFullyOriginalLoc
RECURSIVE getFullyOriginalLoc(_)
getFullyOriginalLoc(loc) ==
    IF loc.buffer = 0 THEN loc
    ELSE getFullyOriginalLoc(getOriginalLoc(sourceManager, loc))

\* The token came from the actual argument i of the last usage, where it is
\* the identifier at place j.
FromArgument(tok, i, j) ==
    /\ last.actualArgs.args[i][j].kind = "Identifier"
    /\ tok.text = last.actualArgs.args[i][j].text

\* C20: a token of an actual argument of a top-level usage that reaches the
\* output, through whatever macros with arguments it is passed on to, has a
\* location that is spelled through expansions of arguments only, and whose
\* fully original location is the place of the token in the argument at the
\* usage.
C20_ArgumentLocation ==
    (last.op = "usage" /\ last.kind = "expanded") =>
        \A k \in DOMAIN expandedTokens :
        \A i \in DOMAIN last.actualArgs.args :
        \A j \in DOMAIN last.actualArgs.args[i] :
            FromArgument(expandedTokens[k], i, j) =>
                /\ expandedTokens[k].loc.buffer # 0
                /\ \A n \in DOMAIN SpellingRecords(expandedTokens[k].loc) :
                       SpellingRecords(expandedTokens[k].loc)[n].isMacroArg
                /\ getFullyOriginalLoc(expandedTokens[k].loc)
                       = last.actualArgs.args[i][j].loc

\* `B(a) with `define B(y) `F(y) and `define F(y) y: the a is spelled
\* through two expansions of arguments, and comes from offset 3 of the usage.
C20_Witness ==
    /\ last.op = "usage"
    /\ last.directive.text = Use(Name("B"))
    /\ Len(expandedTokens) = 1
    /\ FromArgument(expandedTokens[1], 1, 1)
    /\ Len(SpellingRecords(expandedTokens[1].loc)) = 2
    /\ getFullyOriginalLoc(expandedTokens[1].loc)
           = SourceLocation(0, ProgramOffset + 3)

(***************************************************************************)
(* Properties of the functions on their own.                               *)
(***************************************************************************)
\* expandMacro was called on a function-like macro and returned.
MacroCalled ==
    /\ last.op = "macro"
    /\ last.kind = "no"
    /\ UsedFormals.present
    /\ UsedMacro.syntax.body # <<>>

\* The names of the formals, and whether a body token stands for one.
FormalNames == {valueText(UsedFormals.args[i].name) : i \in DOMAIN UsedFormals.args}

Refers(token, name) ==
    \/ (token.kind = "Identifier" \/ isKeyword(token.kind))
       /\ valueText(token) = name
    \/ token.kind = "Directive" /\ token.dk = "MacroUsage"
       /\ valueText(token) # <<>> /\ Tail(valueText(token)) = name

Occurrences(name) ==
    {k \in DOMAIN UsedMacro.syntax.body : Refers(UsedMacro.syntax.body[k], name)}

\* What expandReplacementList makes of the i-th argument that was expanded,
\* called with an empty alreadyExpanded in the state noted with it.
PreExpanded(i) ==
    expandReplacementList(last.call.pre[i].tokens, {}, last.call.pre[i].w, {})

\* The entry of a name in the argument map expandMacro ended with.
MapEntry(name) == last.call.map[ArgFind(last.call.map, name, 1)].arg

\* The tokens apart from line continuations, which the mode of a `define
\* in the body adds and which an append outside of it turns into empty
\* arguments.
NoContinuations(toks) ==
    SelectSeq(toks, LAMBDA t : t.kind # "LineContinuation")

\* The text the body comes to when every formal is replaced by the tokens
\* its entry of the argument map holds.
RECURSIVE Substituted(_)
Substituted(body) ==
    IF body = <<>> THEN <<>>
    ELSE (IF \E n \in FormalNames : Refers(Head(body), n)
          THEN Flatten(Texts(NoContinuations(
                   MapEntry(CHOOSE n \in FormalNames :
                                Refers(Head(body), n)).tokens)))
          ELSE Head(body).text)
         \o Substituted(Tail(body))

\* C21: in one call of expandMacro an argument is run through
\* expandReplacementList at most once, when its formal is first substituted
\* and with an empty alreadyExpanded; the expansions follow each other in
\* the order of the first occurrences, and nothing else consumes source text
\* or reports a diagnostic; every occurrence of the formal is replaced by
\* that one expanded sequence (line continuations apart, which the mode of
\* a `define in the body adds); the argument of a formal that does not
\* occur in the body is left as it was.
C21_ArgumentExpandedOnce ==
    MacroCalled =>
        /\ \A i, j \in DOMAIN last.call.pre :
               i # j => last.call.pre[i].name # last.call.pre[j].name
        /\ \A i \in DOMAIN last.call.pre :
               /\ Occurrences(last.call.pre[i].name) # {}
               /\ last.call.pre[i].w =
                      IF i = 1 THEN last.call.at ELSE PreExpanded(i - 1).w
               /\ (i < Len(last.call.pre) \/ last.call.ret) =>
                      /\ PreExpanded(i).ok
                      /\ MapEntry(last.call.pre[i].name) =
                             [tokens |-> PreExpanded(i).tokens,
                              isExpanded |-> TRUE]
        /\ (last.call.pre # <<>> /\ ~last.call.ret) =>
               ~PreExpanded(Len(last.call.pre)).ok
        /\ World(stream, diagnostics) =
               IF last.call.pre = <<>> THEN
                   IF last.call.ret THEN last.call.at
                   ELSE addDiag(last.call.at, Last(diagnostics))
               ELSE PreExpanded(Len(last.call.pre)).w
        /\ last.call.ret =>
               /\ \A n \in FormalNames :
                      \/ \E i \in DOMAIN last.call.pre : last.call.pre[i].name = n
                      \/ Occurrences(n) = {} /\ ~MapEntry(n).isExpanded
               /\ Flatten(Texts(NoContinuations(expandedTokens))) =
                      Substituted(UsedMacro.syntax.body)

\* `D(`F) before (2) z: the argument `F takes its own argument list from the
\* source text, once, and both occurrences of the formal are replaced by 2.
C21_Witness ==
    /\ MacroCalled
    /\ last.call.ret
    /\ Len(last.call.pre) = 1
    /\ Cardinality(Occurrences(last.call.pre[1].name)) = 2
    /\ stream # last.call.at.stream
    /\ Len(expandedTokens) = 2

\* expandReplacementList was called and returned.
ListCalled == last.op = "list" /\ last.kind = "no"

\* The buffer holds the usage of a macro of the table.
ValidUsages ==
    {k \in DOMAIN buffer :
         isMacroUsage(buffer[k]) /\ valid(findMacro(buffer[k]))}

\* C22 as the text has it: true is returned exactly when a usage was
\* replaced by its expansion.
C22_TrueIffExpanded ==
    ListCalled => (last.call.ret <=> last.call.expandedSomething)

\* C22: expandReplacementList returns true exactly when it met no error (a
\* recursive usage, a missing argument list, a wrong number of arguments),
\* whether or not it expanded something; that is told by the tokens: after
\* a return of true they were replaced exactly when the buffer held the
\* usage of a macro of the table, and are the buffer's own otherwise.
C22_TrueIffNoError ==
    ListCalled =>
        /\ last.call.ret <=>
               \A i \in DOMAIN diagnostics : diagnostics[i] \notin UsageErrors
        /\ last.call.ret =>
               (last.call.expandedSomething <=> ValidUsages # {})
        /\ ~last.call.expandedSomething => expandedTokens = buffer

\* true is returned for a buffer with the usage of an unknown name, of which
\* nothing was expanded.
C22_Witness ==
    /\ ListCalled
    /\ last.call.ret
    /\ ~last.call.expandedSomething
    /\ \E k \in DOMAIN buffer : isMacroUsage(buffer[k])

\* C23 as the text has it: alreadyExpanded is at every return what it was
\* at the call.
C23_SetRestored == ListCalled => last.call.exit = last.call.entry

\* C23: a nested macro is in alreadyExpanded while its expansion is
\* expanded, and is removed after it when that succeeded: after a return of
\* true alreadyExpanded is what it was at the call.  A return of false
\* removes nothing: the set then holds, besides what it held at the call,
\* the macros whose expansions were being expanded when the error was met.
C23_SetRestoredOnSuccess ==
    ListCalled =>
        /\ last.call.ret => last.call.exit = last.call.entry
        /\ last.call.entry \subseteq last.call.exit
        /\ \A n \in last.call.exit \ last.call.entry :
               /\ n \in DOMAIN macros
               /\ ~isIntrinsic(macros[n])
               /\ ~last.call.ret

\* `M was expanded to `K x and `K to 1; the set is as it was.
C23_Witness ==
    /\ ListCalled
    /\ last.call.ret
    /\ last.call.entry # {}
    /\ last.call.exit = last.call.entry
    /\ \E k \in ValidUsages :
           \E j \in DOMAIN findMacro(buffer[k]).syntax.body :
               isMacroUsage(findMacro(buffer[k]).syntax.body[j])

\* applyMacroOps was called on the buffer.
OpsCalled == last.op = "ops"

\* The concatenations of one branch that gave the usage of a macro.
UsagesMade(by) ==
    {i \in DOMAIN last.call.made :
         last.call.made[i].by \in by /\ isMacroUsage(last.call.made[i].token)}

FirstUsage == CHOOSE k \in ValidUsages : \A j \in ValidUsages : k <= j

\* Its actual arguments, its replacement list with the arguments
\* substituted, that list fully expanded, and the expansion of what follows
\* the usage and its argument list.
FirstUsageArgs ==
    IF needsArgs(findMacro(buffer[FirstUsage]))
    THEN parseActualArgumentList(
             Parser(SubSeq(buffer, FirstUsage + 1, Len(buffer)), last.call.at),
             buffer[FirstUsage])
    ELSE [list |-> NoArgs,
          p |-> Parser(SubSeq(buffer, FirstUsage + 1, Len(buffer)),
                       last.call.at)]

FirstUsageBody ==
    expandMacro(findMacro(buffer[FirstUsage]),
                MacroExpansion(<<>>, buffer[FirstUsage], FALSE),
                FirstUsageArgs.list, ParserWorld(FirstUsageArgs.p), {})

FirstUsageExpanded ==
    expandReplacementList(
        FirstUsageBody.e.dest,
        last.call.entry \cup {SyntaxPtr(findMacro(buffer[FirstUsage]))},
        FirstUsageBody.w, {})

AfterFirstUsage ==
    expandReplacementList(
        SubSeq(FirstUsageArgs.p.buf, FirstUsageArgs.p.idx,
               Len(FirstUsageArgs.p.buf)),
        last.call.entry, FirstUsageExpanded.w, {})

\* C27: expandReplacementList copies what is not the usage of a macro of the
\* table, the usage of an unknown name too, to the same place of the output:
\* a buffer without the usage of a known macro comes back as it was, with no
\* diagnostic and nothing taken from the source behind it; otherwise the
\* output is what stands before the first such usage, unchanged and in its
\* order, then the fully expanded tokens of that usage in the place of the
\* usage and its argument list, then the expansion of what follows them.
C27_ReplacedInPlace ==
    (ListCalled /\ last.call.ret) =>
        IF ValidUsages = {} THEN
            /\ expandedTokens = buffer
            /\ diagnostics = last.call.at.diags
            /\ stream = last.call.at.stream
        ELSE
            /\ expandedTokens =
                   SubSeq(buffer, 1, FirstUsage - 1)
                       \o FirstUsageExpanded.tokens \o AfterFirstUsage.tokens
            /\ diagnostics = AfterFirstUsage.w.diags
            /\ stream = AfterFirstUsage.w.stream

\* `U stands before the usage of a macro with arguments and a token follows
\* them: `U is the first token of the output, the expansion comes next and
\* the token after the argument list last.
C27_Witness ==
    /\ ListCalled
    /\ last.call.ret
    /\ ValidUsages # {}
    /\ FirstUsage = 2
    /\ isMacroUsage(buffer[1])
    /\ needsArgs(findMacro(buffer[FirstUsage]))
    /\ expandedTokens # <<>>
    /\ expandedTokens[1] = buffer[1]
    /\ AfterFirstUsage.tokens # <<>>
    /\ expandedTokens[Len(expandedTokens)] = buffer[Len(buffer)]
    /\ Len(expandedTokens) < Len(buffer)

\* The formals that have neither an actual argument nor a default.
MissingActuals ==
    {i \in DOMAIN UsedFormals.args :
         /\ i > Len(last.actualArgs.args)
         /\ ~UsedFormals.args[i].defaultValue.present}

\* The tokens the i-th formal is to stand for.
TokensFor(i) ==
    IF i <= Len(last.actualArgs.args) /\ last.actualArgs.args[i] # <<>>
    THEN last.actualArgs.args[i]
    ELSE IF UsedFormals.args[i].defaultValue.present
    THEN UsedFormals.args[i].defaultValue.tokens
    ELSE <<>>

\* The tokens the argument map held for a name before they were expanded.
BoundTo(name) ==
    IF \E k \in DOMAIN last.call.pre : last.call.pre[k].name = name
    THEN last.call.pre[CHOOSE k \in DOMAIN last.call.pre :
                           last.call.pre[k].name = name].tokens
    ELSE MapEntry(name).tokens

\* C28: when expandMacro matches the actual arguments of a macro with a
\* body with its formal ones (distinct names, not more actuals than
\* formals), every formal stands for its actual if that exists and is not
\* empty, for its default if the actual is empty or missing and there is a
\* default, and for no tokens if the actual is empty and there is no
\* default; NotEnoughMacroArgs is reported, once and as the only
\* diagnostic, and false is returned with nothing expanded, exactly when
\* an actual is missing and its formal has no default.
C28_FormalBound ==
    (MacroCalled
        /\ Len(last.actualArgs.args) <= Len(UsedFormals.args)) =>
        /\ Count(diagnostics, "NotEnoughMacroArgs") =
               Count(last.call.at.diags, "NotEnoughMacroArgs")
                   + (IF MissingActuals # {} THEN 1 ELSE 0)
        /\ MissingActuals # {} =>
               /\ ~last.call.ret
               /\ diagnostics =
                      Append(last.call.at.diags, "NotEnoughMacroArgs")
               /\ last.call.pre = <<>>
               /\ expandedTokens = <<>>
        /\ MissingActuals = {} =>
               \A i \in DOMAIN UsedFormals.args :
                   LET name == valueText(UsedFormals.args[i].name)
                   IN  /\ ArgFind(last.call.map, name, 1) # 0
                       /\ BoundTo(name) = TokensFor(i)

\* `G(,) with `define G(a, b = 2) a b: the first formal stands for no
\* tokens, the second for its default, and nothing is reported.
C28_Witness ==
    /\ MacroCalled
    /\ last.call.ret
    /\ Len(UsedFormals.args) = 2
    /\ last.actualArgs.args = << <<>>, <<>> >>
    /\ ~UsedFormals.args[1].defaultValue.present
    /\ UsedFormals.args[2].defaultValue.present
    /\ BoundTo(valueText(UsedFormals.args[1].name)) = <<>>
    /\ BoundTo(valueText(UsedFormals.args[2].name))
           = UsedFormals.args[2].defaultValue.tokens
    /\ UsedFormals.args[2].defaultValue.tokens # <<>>
    /\ diagnostics = <<>>

\* `E(1) with `define E(a, b) a b: the second actual is missing and there
\* is no default for it.
C28_WitnessMissing ==
    /\ MacroCalled
    /\ MissingActuals = {2}
    /\ ~last.call.ret

\* parseTokenList was called: the tokens it had before it, from the buffer
\* and then from the source, and the token it stopped at.
ParseCalled == last.op = "parse"

ParseInput == buffer \o last.call.at.stream

StoppedAt ==
    IF Len(expandedTokens) < Len(ParseInput)
    THEN ParseInput[Len(expandedTokens) + 1] ELSE EofTok

\* The closers of the delimiters that were opened in toks and not closed
\* since, the innermost last: a closer closes the innermost open delimiter
\* if it is of its kind.
RECURSIVE Unclosed(_)
Unclosed(toks) ==
    IF toks = <<>> THEN <<>>
    ELSE LET open == Unclosed(Front(toks))
             kind == Last(toks).kind
             rest == IF open # <<>> /\ Last(open) = kind
                     THEN Front(open) ELSE open
         IN  IF getDelimCloseKind(kind) # "Unknown"
             THEN Append(rest, getDelimCloseKind(kind)) ELSE rest

\* The end of the input, or of the line if newlines are not allowed.
EndsInput(token) ==
    \/ token.kind = "EndOfFile"
    \/ last.kind = "line" /\ ~isOnSameLine(token)

\* A comma or a closing parenthesis.
Separates(token) == token.kind \in {"Comma", "CloseParenthesis"}

\* C29: parseTokenList takes the tokens in front of it up to the first
\* comma or closing parenthesis that is met while no delimiter opened
\* among the tokens taken is unclosed; a separator met while one is
\* unclosed is taken with the others, and so is, when newlines are
\* allowed as in an actual argument, a token on a new line.  Only the end
\* of the input (or of the line, when newlines are not allowed) stops it
\* otherwise, and if a delimiter is unclosed then, UnbalancedMacroArgDims
\* is reported once, for the closer of the innermost one and with a last
\* token taken to locate it at; nothing is reported in any other case.
C29_ArgumentEnds ==
    ParseCalled =>
        /\ Len(expandedTokens) <= Len(ParseInput)
        /\ expandedTokens = SubSeq(ParseInput, 1, Len(expandedTokens))
        /\ stream =
               IF Len(expandedTokens) <= Len(buffer) THEN last.call.at.stream
               ELSE SubSeq(ParseInput, Len(expandedTokens) + 1,
                           Len(ParseInput))
        /\ \A k \in DOMAIN expandedTokens :
               /\ ~EndsInput(expandedTokens[k])
               /\ Separates(expandedTokens[k]) =>
                      Unclosed(SubSeq(expandedTokens, 1, k - 1)) # <<>>
        /\ \/ EndsInput(StoppedAt)
           \/ Separates(StoppedAt) /\ Unclosed(expandedTokens) = <<>>
        /\ IF EndsInput(StoppedAt) /\ Unclosed(expandedTokens) # <<>>
           THEN /\ diagnostics =
                       Append(last.call.at.diags, "UnbalancedMacroArgDims")
                /\ last.call.expected = <<Last(Unclosed(expandedTokens))>>
                /\ expandedTokens # <<>>
           ELSE /\ diagnostics = last.call.at.diags
                /\ last.call.expected = <<>>

\* [ ( ] ) , 1 with newlines allowed: the parenthesis is closed, the bracket
\* is not, the comma is taken as part of the argument; at the end of the
\* input the diagnostic names the closing bracket.
C29_Witness ==
    /\ ParseCalled
    /\ last.kind = "newlines"
    /\ \E k \in DOMAIN expandedTokens :
           /\ expandedTokens[k].kind = "Comma"
           /\ Len(Unclosed(SubSeq(expandedTokens, 1, k - 1))) = 1
           /\ k > 4
    /\ \E k \in DOMAIN expandedTokens : ~isOnSameLine(expandedTokens[k])
    /\ StoppedAt.kind = "EndOfFile"
    /\ last.call.expected = <<"CloseBracket">>
    /\ Count(diagnostics, "UnbalancedMacroArgDims") = 1

\* { 1 , 2 } , 3: the argument ends at the comma after the closing brace.
C29_WitnessComma ==
    /\ ParseCalled
    /\ last.kind = "newlines"
    /\ StoppedAt.kind = "Comma"
    /\ \E k \in DOMAIN expandedTokens : expandedTokens[k].kind = "Comma"
    /\ diagnostics = <<>>

\* A token was appended in the run; the run before and after the call.
RunAppended == last.op = "append"

RunBefore == last.call.run.before

RunAfter == last.call.run.after

\* C30: MacroExpansion::append with adjustLoc creates an expansion location
\* exactly when the buffer of the token is not that of the first token of
\* the current run; it is created for the location of the token, as one of
\* a macro argument and for the same expansion range, and the token is the
\* first one of the run from then on; otherwise the source manager and the
\* run stay as they are.  Either way the first token of the run is in the
\* buffer of the token, the token is appended at the location of the run
\* plus its distance from the first token, and that location is spelled
\* where the token is.
C30_NewLocationAtBoundary ==
    RunAppended =>
        /\ IF last.directive.loc.buffer # RunBefore.firstLoc.buffer THEN
               /\ sourceManager =
                      Append(RunBefore.sm,
                             [originalLoc |-> last.directive.loc,
                              expansionRange |-> getRange(RunBefore.e),
                              isMacroArg |-> TRUE])
               /\ RunAfter.firstLoc = last.directive.loc
               /\ RunAfter.macroLoc = SourceLocation(Len(sourceManager), 0)
           ELSE
               /\ sourceManager = RunBefore.sm
               /\ RunAfter.firstLoc = RunBefore.firstLoc
               /\ RunAfter.macroLoc = RunBefore.macroLoc
        /\ RunAfter.sm = sourceManager
        /\ RunAfter.firstLoc.buffer = last.directive.loc.buffer
        /\ expandedTokens # <<>>
        /\ Front(expandedTokens) = RunBefore.e.dest
        /\ Last(expandedTokens).loc =
               LocPlus(RunAfter.macroLoc,
                       last.directive.loc.offset - RunAfter.firstLoc.offset)
        /\ getOriginalLoc(sourceManager, Last(expandedTokens).loc)
               = last.directive.loc

\* The third token of a run: the second one was in another buffer than the
\* first and got a location of its own, the third follows the second in its
\* buffer and is appended behind the start of that location.
C30_Witness ==
    /\ RunAppended
    /\ Len(expandedTokens) = 3
    /\ Len(sourceManager) = Len(RunBuffers) + 2
    /\ sourceManager = RunBefore.sm
    /\ expandedTokens[1].loc.buffer # expandedTokens[2].loc.buffer
    /\ expandedTokens[3].loc = LocPlus(expandedTokens[2].loc, 1)
    /\ last.directive.loc.buffer # 0

\* The passes of the loop of applyMacroOps: the state at the head of pass j
\* and after it, and the token the pass starts at.
OpsPasses == 1..(Len(last.call.steps) - 1)

PassBefore(j) == last.call.steps[j].st

PassAfter(j) == last.call.steps[j + 1].st

TokenOfPass(j) == buffer[last.call.steps[j].i]

\* The buffer that takes the token a pass emits in state st, and the three
\* buffers with a token appended to that one.
TargetOf(st) ==
    IF IsTok(st.stringify) THEN "stringify"
    ELSE IF IsTok(st.syntheticComment) THEN "comment" ELSE "dest"

Buffers(st) ==
    [dest |-> st.dest, stringify |-> st.stringifyBuffer,
     comment |-> st.commentBuffer]

EmittedTo(st, target, token) ==
    [Buffers(st) EXCEPT ![target] = Append(@, token)]

\* The tokens that the body of the macro comes to, token by token: the
\* expanded argument under the trivia of the formal, or an empty argument
\* with the trivia that is given, or the body token itself.
ArgOf(k) ==
    MapEntry(CHOOSE n \in FormalNames : Refers(UsedMacro.syntax.body[k], n)).tokens

IsFormal(k) == \E n \in FormalNames : Refers(UsedMacro.syntax.body[k], n)

\* The body token k is read in the mode that a `define token of the body
\* starts and that the first later body token on a new line ends.
InDefine(k) ==
    \E d \in 1..(k - 1) :
        /\ UsedMacro.syntax.body[d].kind = "Directive"
        /\ UsedMacro.syntax.body[d].dk = "DefineDirective"
        /\ \A m \in (d + 1)..k : isOnSameLine(UsedMacro.syntax.body[m])

\* The argument of the formal at k as it is substituted: its first token
\* under the trivia of the formal.
ArgumentAt(k) ==
    <<withTrivia(ArgOf(k)[1], UsedMacro.syntax.body[k].trivia)>>
        \o Tail(ArgOf(k))

LineContinuationFor(token) ==
    Tok("LineContinuation", token.trivia, <<Backslash>>, "None")

\* What a line continuation that an argument holds is appended as.
StrippedContinuation(token) ==
    IF token.kind = "LineContinuation"
    THEN Tok("EmptyMacroArgument",
             Append(token.trivia, Trivia("EndOfLine", Tail(token.text))),
             <<>>, "None")
    ELSE token

\* The tokens of an argument with a line continuation before each that
\* starts a line, every token as it is (keep) or every line continuation
\* among them stripped.
RECURSIVE Continued(_, _)
Continued(toks, keep) ==
    IF toks = <<>> THEN <<>>
    ELSE (IF isOnSameLine(Head(toks))
          THEN <<IF keep THEN Head(toks) ELSE StrippedContinuation(Head(toks))>>
          ELSE <<LineContinuationFor(Head(toks)),
                 IF keep THEN withTrivia(Head(toks), <<>>)
                 ELSE StrippedContinuation(withTrivia(Head(toks), <<>>))>>)
             \o Continued(Tail(toks), keep)

BodyPiece(k, emptyTrivia) ==
    IF ~IsFormal(k) THEN <<UsedMacro.syntax.body[k]>>
    ELSE IF ArgOf(k) = <<>>
    THEN <<Tok("EmptyMacroArgument", emptyTrivia, <<>>, "None")>>
    ELSE IF InDefine(k) THEN Continued(ArgumentAt(k), FALSE)
    ELSE [i \in DOMAIN ArgumentAt(k) |-> StrippedContinuation(ArgumentAt(k)[i])]

RECURSIVE PiecesBefore(_)
PiecesBefore(k) ==
    IF k <= 1 THEN 0
    ELSE PiecesBefore(k - 1)
             + Len(BodyPiece(k - 1, UsedMacro.syntax.body[k - 1].trivia))

\* The body tokens that stand for a formal whose argument is empty.
EmptyFormals ==
    {k \in DOMAIN UsedMacro.syntax.body : IsFormal(k) /\ ArgOf(k) = <<>>}

\* An empty argument of applyMacroOps: the trivia carried grows by its
\* trivia and no buffer changes.
EmptyArgumentKept(j) ==
    TokenOfPass(j).kind = "EmptyMacroArgument" =>
        /\ Buffers(PassAfter(j)) = Buffers(PassBefore(j))
        /\ PassAfter(j).emptyArgTrivia =
               PassBefore(j).emptyArgTrivia \o TokenOfPass(j).trivia

\* A token that is emitted while trivia is carried takes it in front of its
\* own, in the buffer that is filled at the time, and none is carried after
\* it: a token of the buffer, or the string that a closing `" makes.
CarriedTriviaGiven(j) ==
    PassBefore(j).emptyArgTrivia # <<>> =>
        /\ TokenOfPass(j).kind \notin
               {"EmptyMacroArgument", "MacroPaste", "MacroQuote"} =>
               /\ Buffers(PassAfter(j)) =
                      EmittedTo(PassBefore(j), TargetOf(PassBefore(j)),
                                withTrivia(TokenOfPass(j),
                                           PassBefore(j).emptyArgTrivia
                                               \o TokenOfPass(j).trivia))
               /\ PassAfter(j).emptyArgTrivia = <<>>
        /\ (TokenOfPass(j).kind = "MacroQuote" /\ IsTok(PassBefore(j).stringify)) =>
               /\ Buffers(PassAfter(j)) =
                      EmittedTo(PassBefore(j),
                                IF IsTok(PassBefore(j).syntheticComment)
                                THEN "comment" ELSE "dest",
                                stringify(PassBefore(j).emptyArgTrivia
                                              \o PassBefore(j).stringify.trivia,
                                          PassBefore(j).stringifyBuffer))
               /\ PassAfter(j).emptyArgTrivia = <<>>
        /\ (TokenOfPass(j).kind = "MacroQuote" /\ ~IsTok(PassBefore(j).stringify)) =>
               /\ Buffers(PassAfter(j)) = Buffers(PassBefore(j))
               /\ PassAfter(j).emptyArgTrivia = PassBefore(j).emptyArgTrivia

\* C31 as the text has it: the empty argument that stands for a formal
\* carries the trivia of the formal wherever the formal stands in the body.
C31_FormalTriviaCarried ==
    (MacroCalled /\ last.call.ret) =>
        \A k \in EmptyFormals :
            /\ PiecesBefore(k) < Len(expandedTokens)
            /\ expandedTokens[PiecesBefore(k) + 1] =
                   Tok("EmptyMacroArgument", UsedMacro.syntax.body[k].trivia,
                       <<>>, "None")

\* C31: for a formal whose argument is empty expandMacro appends one
\* EmptyMacroArgument token in the place of the formal; it carries the
\* trivia of the formal, unless it is the first token of the expansion,
\* which carries the trivia of the usage like every first token does.
\* applyMacroOps emits nothing for an EmptyMacroArgument token and adds
\* its trivia to the trivia it carries; the next token it emits, to dest,
\* to the stringification or to the comment, gets the carried trivia in
\* front of its own, and nothing is carried after that.
C31_EmptyArgumentToken ==
    /\ (MacroCalled /\ last.call.ret) =>
           /\ Len(expandedTokens) =
                  PiecesBefore(Len(UsedMacro.syntax.body) + 1)
           /\ \A k \in DOMAIN UsedMacro.syntax.body :
                  SubSeq(expandedTokens, PiecesBefore(k) + 1,
                         PiecesBefore(k + 1)) =
                      IF k = 1
                      THEN <<withTrivia(BodyPiece(1, <<>>)[1],
                                        last.directive.trivia)>>
                               \o Tail(BodyPiece(1, <<>>))
                      ELSE BodyPiece(k, UsedMacro.syntax.body[k].trivia)
    /\ OpsCalled =>
           \A j \in OpsPasses : EmptyArgumentKept(j) /\ CarriedTriviaGiven(j)

\* `C(,) with `define C(a, b) a<tab>b x went through expandMacro and then
\* through applyMacroOps: two empty arguments came before the x, the first
\* without trivia, the second with the tab, and the x is emitted with the
\* tab in front of its space.
C31_Witness ==
    /\ OpsCalled
    /\ Len(buffer) = 3
    /\ buffer[1] = Tok("EmptyMacroArgument", <<>>, <<>>, "None")
    /\ buffer[2] = Tok("EmptyMacroArgument", <<TAB>>, <<>>, "None")
    /\ expandedTokens = <<LexTok(<<TAB, WS>>, <<"x">>)>>

\* An empty argument inside a stringification and one inside a synthetic
\* comment: the token after it took its trivia into these buffers.
C31_WitnessString ==
    /\ OpsCalled
    /\ \E j \in OpsPasses :
           /\ PassBefore(j).emptyArgTrivia # <<>>
           /\ TargetOf(PassBefore(j)) = "stringify"
           /\ PassAfter(j).stringifyBuffer # PassBefore(j).stringifyBuffer

C31_WitnessComment ==
    /\ OpsCalled
    /\ \E j \in OpsPasses :
           /\ PassBefore(j).emptyArgTrivia # <<>>
           /\ TargetOf(PassBefore(j)) = "comment"
           /\ PassAfter(j).commentBuffer # PassBefore(j).commentBuffer

\* The index of the token a pass starts at, and of the one the next starts at.
PassIndex(j) == last.call.steps[j].i

\* The pass is at a MacroPaste that is not ignored for standing at an end
\* of the buffer or next to trivia.
PasteTaken(j) ==
    /\ TokenOfPass(j).kind = "MacroPaste"
    /\ PassIndex(j) > 1
    /\ PassIndex(j) < Len(buffer)
    /\ TokenOfPass(j).trivia = <<>>
    /\ buffer[PassIndex(j) + 1].trivia = <<>>
    /\ PassBefore(j).emptyArgTrivia = <<>>

\* The pass is outside of a stringification and does not start one.
OutsideString(j) ==
    /\ ~IsTok(PassBefore(j).stringify)
    /\ TokenOfPass(j).kind # "MacroQuote"

CommentOpen(st) == IsTok(st.syntheticComment)

\* The paste of the pass has a / to its left in dest and a * to its right.
OpensComment(j) ==
    /\ PasteTaken(j)
    /\ ~CommentOpen(PassBefore(j))
    /\ PassBefore(j).dest # <<>>
    /\ Last(PassBefore(j).dest).kind = "Slash"
    /\ buffer[PassIndex(j) + 1].kind = "Star"

\* The paste of the pass has a * before it in the comment and a / after it.
ClosesComment(j) ==
    /\ PasteTaken(j)
    /\ CommentOpen(PassBefore(j))
    /\ Last(PassBefore(j).commentBuffer).kind = "Star"
    /\ buffer[PassIndex(j) + 1].kind = "Slash"

\* C32: outside of a stringification and with dest not empty, a paste that
\* is not ignored, with / as the last token of dest and * as the next token,
\* takes the / from dest and opens a synthetic comment of / and *, and
\* nothing else opens one.  While the comment is open dest stays as it is:
\* a token that would be emitted is appended to the comment, and a paste is
\* dropped unless the comment ends in * and / is the next token, which
\* closes the comment.  The closed comment is the trivia of the / followed
\* by one block comment, carried like the trivia of an empty argument: the
\* next token emitted has it in front of its own trivia.
C32_SyntheticComment ==
    (OpsCalled /\ ~last.ub) =>
        \A j \in OpsPasses :
            /\ OutsideString(j) =>
                   /\ (CommentOpen(PassAfter(j)) /\ ~CommentOpen(PassBefore(j)))
                          <=> OpensComment(j)
                   /\ (~CommentOpen(PassAfter(j)) /\ CommentOpen(PassBefore(j)))
                          <=> ClosesComment(j)
                   /\ OpensComment(j) =>
                          /\ PassAfter(j).dest = Front(PassBefore(j).dest)
                          /\ PassAfter(j).syntheticComment =
                                 Last(PassBefore(j).dest)
                          /\ PassAfter(j).commentBuffer =
                                 <<withTrivia(Last(PassBefore(j).dest), <<>>),
                                   buffer[PassIndex(j) + 1]>>
                          /\ PassIndex(j + 1) = PassIndex(j) + 2
                          /\ PassAfter(j).diags = PassBefore(j).diags
                   /\ CommentOpen(PassBefore(j)) =>
                          /\ PassAfter(j).dest = PassBefore(j).dest
                          /\ TokenOfPass(j).kind # "MacroPaste" =>
                                 PassAfter(j).commentBuffer =
                                     Append(PassBefore(j).commentBuffer,
                                            withTrivia(
                                                TokenOfPass(j),
                                                PassBefore(j).emptyArgTrivia
                                                    \o TokenOfPass(j).trivia))
                          /\ (TokenOfPass(j).kind = "MacroPaste"
                                 /\ ~ClosesComment(j)) =>
                                 PassAfter(j).commentBuffer =
                                     PassBefore(j).commentBuffer
                   /\ ClosesComment(j) =>
                          /\ PassAfter(j).emptyArgTrivia =
                                 Append(PassBefore(j).syntheticComment.trivia,
                                        commentify(
                                            Append(PassBefore(j).commentBuffer,
                                                   buffer[PassIndex(j) + 1])))
                          /\ PassIndex(j + 1) = PassIndex(j) + 2
                          /\ PassAfter(j).diags = PassBefore(j).diags
            /\ CarriedTriviaGiven(j)

\* <space>/``*``/X: the comment was opened and closed, and X is the only
\* token of the output, behind the space of the / and the comment.
C32_Witness ==
    /\ OpsCalled
    /\ ~last.ub
    /\ \E j \in OpsPasses : OpensComment(j)
    /\ \E j \in OpsPasses : ClosesComment(j)
    /\ Len(expandedTokens) = 1
    /\ expandedTokens[1].text = <<"X">>
    /\ Len(expandedTokens[1].trivia) = 2
    /\ expandedTokens[1].trivia[1] = WS
    /\ diagnostics = <<>>

\* /``*X``X: a token is collected into the open comment and a paste in it
\* is dropped.
C32_WitnessCollected ==
    /\ OpsCalled
    /\ ~last.ub
    /\ \E j \in OpsPasses :
           /\ CommentOpen(PassBefore(j)) /\ OutsideString(j)
           /\ TokenOfPass(j).kind = "MacroPaste" /\ PasteTaken(j)
           /\ ~ClosesComment(j)
           /\ Len(PassBefore(j).commentBuffer) = 3

\* The state applyMacroOps ended its loop in, and the last pass that opened
\* a synthetic comment.
FinalPass == last.call.steps[Len(last.call.steps)].st

LastOpening ==
    CHOOSE j \in OpsPasses :
        /\ OpensComment(j)
        /\ \A k \in OpsPasses : OpensComment(k) => k <= j

\* The passes at a paste that is ignored with a diagnostic: at an end of
\* the buffer or next to trivia, or in a stringification with nothing to
\* paste.
IgnoredPastes ==
    {j \in OpsPasses :
         /\ TokenOfPass(j).kind = "MacroPaste"
         /\ \/ ~PasteTaken(j)
            \/ /\ IsTok(PassBefore(j).stringify)
               /\ \/ PassBefore(j).stringifyBuffer = <<>>
                  \/ buffer[PassIndex(j) + 1].kind = "MacroQuote"}

PieceOf(k) ==
    SubSeq(expandedTokens, PiecesBefore(k) + 1, PiecesBefore(k + 1))

\* The formals of the body whose argument has tokens.
FilledFormals ==
    {k \in DOMAIN UsedMacro.syntax.body : IsFormal(k) /\ ArgOf(k) # <<>>}

\* C33 as the text has it: in the mode of a `define in the body every
\* token of the argument that starts a line comes as a LineContinuation
\* with its trivia and then as itself without trivia.
C33_TokenItselfFollows ==
    (MacroCalled /\ last.call.ret) =>
        \A k \in FilledFormals :
            InDefine(k) => PieceOf(k) = Continued(ArgumentAt(k), TRUE)

\* C33: after a `define token in the body of a macro with formals, and
\* until a later body token starts a new line, every token of a substituted
\* argument that starts a line is emitted as a LineContinuation token with
\* the trivia of that token, followed by the token without trivia; a token
\* of the argument that is a LineContinuation itself is emitted as an
\* EmptyMacroArgument with an end of line added to its trivia.  The first
\* token of the argument has the trivia of the formal.  Outside this mode
\* a substituted argument produces no LineContinuation token.
C33_ContinuationInDefine ==
    (MacroCalled /\ last.call.ret) =>
        /\ Len(expandedTokens) = PiecesBefore(Len(UsedMacro.syntax.body) + 1)
        /\ \A k \in FilledFormals :
               /\ InDefine(k) => PieceOf(k) = Continued(ArgumentAt(k), FALSE)
               /\ ~InDefine(k) =>
                      /\ Len(PieceOf(k)) = Len(ArgOf(k))
                      /\ \A i \in DOMAIN PieceOf(k) :
                             PieceOf(k)[i].kind # "LineContinuation"

\* `P(1 |2) with `define P(a) `define X a |a, | the end of a line: the 2
\* of the first a comes behind a line continuation that has its trivia,
\* the 2 of the second a, which starts a line of the body, comes as it is.
C33_Witness ==
    /\ MacroCalled
    /\ last.call.ret
    /\ last.actualArgs.args = << <<T(<<"1">>), LexTok(<<WS, EOL>>, <<"2">>)>> >>
    /\ InDefine(3)
    /\ ~InDefine(4)
    /\ expandedTokens =
           << withTrivia(T(Use(DefineText)), last.directive.trivia),
              S(<<"X">>), S(<<"1">>),
              Tok("LineContinuation", <<WS, EOL>>, <<Backslash>>, "None"),
              T(<<"2">>),
              LexTok(<<EOL>>, <<"1">>), LexTok(<<WS, EOL>>, <<"2">>) >>

\* `P(`P(1 |2)): the argument holds the line continuation of the inner
\* expansion, which comes out as an empty argument.
C33_WitnessStripped ==
    /\ MacroCalled
    /\ last.call.ret
    /\ \E k \in FilledFormals :
           /\ InDefine(k)
           /\ \E i \in DOMAIN ArgOf(k) : ArgOf(k)[i].kind = "LineContinuation"
           /\ \E i \in DOMAIN PieceOf(k) :
                  PieceOf(k)[i].kind = "EmptyMacroArgument"

\* A call of distribute that was made, and whether its two entry
\* assertions hold.
Distributed == walked.op = "distribute"

GrowBy == IF walked.dist.grow THEN 1 ELSE 0

DistRequires ==
    /\ walked.dist.numElements + GrowBy
           <= walked.dist.numNodes * walked.dist.capacity
    /\ walked.dist.position <= walked.dist.numElements

\* The left-leaning even share of node n, n = 0, 1, ...
EvenShare(n) ==
    (walked.dist.numElements + GrowBy) \div walked.dist.numNodes
        + (IF n < (walked.dist.numElements + GrowBy) % walked.dist.numNodes
           THEN 1 ELSE 0)

RECURSIVE SharesBefore(_)
SharesBefore(n) == IF n = 0 THEN 0 ELSE SharesBefore(n - 1) + EvenShare(n - 1)

\* The size written for node n, and the size it was assigned before the
\* slot of the new element was taken back.
WrittenSize(n) == walked.dist.newSizes[n + 1]

AssignedSize(n) ==
    WrittenSize(n)
        + (IF walked.dist.grow /\ n = walked.dist.posPair.first THEN 1 ELSE 0)

RECURSIVE SumSizes(_)
SumSizes(sizes) == IF sizes = <<>> THEN 0 ELSE Head(sizes) + SumSizes(Tail(sizes))

EvenlySpread ==
    /\ Len(walked.dist.newSizes) = walked.dist.numNodes
    /\ \A n \in 0..(walked.dist.numNodes - 1) : AssignedSize(n) = EvenShare(n)

PositionIdentified ==
    /\ walked.dist.posPair.first < walked.dist.numNodes
    /\ walked.dist.position =
           SharesBefore(walked.dist.posPair.first) + walked.dist.posPair.second
    /\ walked.dist.posPair.second < EvenShare(walked.dist.posPair.first)

\* C34 as the text has it: the pair that is returned names a node and an
\* offset inside its share for every position.
C34_PositionInShare ==
    (Distributed /\ walked.dist.numNodes > 0 /\ DistRequires) =>
        EvenlySpread /\ PositionIdentified

\* C34: distribute spreads numElements + grow elements over numNodes > 0
\* nodes, node n getting floor((numElements + grow) / numNodes) and one
\* more if n < (numElements + grow) mod numNodes; for a position below
\* numElements + grow the pair returned names the node whose share holds
\* the position and the offset in it (the shares before the node and the
\* offset add up to the position, the offset is below the share of the
\* node); for position = numElements without grow the pair is
\* (numNodes, 0).
C34_LeftLeaningEven ==
    (Distributed /\ walked.dist.numNodes > 0 /\ DistRequires) =>
        /\ EvenlySpread
        /\ IF walked.dist.position < walked.dist.numElements + GrowBy
           THEN PositionIdentified
           ELSE walked.dist.posPair = IndexPair(walked.dist.numNodes, 0)

\* Four elements and a new one at position 3 over three nodes: the shares
\* are 2, 2, 1 and the position is the second slot of the second node.
C34_Witness ==
    /\ Distributed
    /\ DistRequires
    /\ walked.dist.numNodes = 3
    /\ walked.dist.numElements = 4
    /\ walked.dist.grow
    /\ walked.dist.position = 3
    /\ <<EvenShare(0), EvenShare(1), EvenShare(2)>> = <<2, 2, 1>>
    /\ walked.dist.posPair = IndexPair(1, 1)
    /\ walked.dist.newSizes = <<2, 1, 1>>

\* C37: for numNodes > 0, numElements + grow <= numNodes * capacity and
\* position <= numElements the sizes distribute writes add up to
\* numElements, none is above capacity, with grow the node of the position
\* returned has a slot free, and every assertion of the call holds: with
\* grow the node returned is below numNodes and its share is not zero.
C37_SizesSumToElements ==
    (Distributed /\ walked.dist.numNodes > 0 /\ DistRequires) =>
        /\ walked.dist.asserts
        /\ Len(walked.dist.newSizes) = walked.dist.numNodes
        /\ SumSizes(walked.dist.newSizes) = walked.dist.numElements
        /\ \A n \in 0..(walked.dist.numNodes - 1) :
               WrittenSize(n) <= walked.dist.capacity
        /\ walked.dist.grow =>
               /\ walked.dist.posPair.first < walked.dist.numNodes
               /\ AssignedSize(walked.dist.posPair.first) > 0
               /\ WrittenSize(walked.dist.posPair.first) < walked.dist.capacity

\* Two nodes of capacity 2 that the new element fills: the three elements
\* there are come to 2 and 1, the new one goes to the end of the second.
C37_Witness ==
    /\ Distributed
    /\ walked.dist.numNodes = 2
    /\ walked.dist.capacity = 2
    /\ walked.dist.numElements = 3
    /\ walked.dist.grow
    /\ walked.dist.position = 3
    /\ walked.dist.asserts
    /\ walked.dist.newSizes = <<2, 1>>
    /\ walked.dist.posPair = IndexPair(1, 1)

\* C38 as the text has it: the node returned is below numNodes and the
\* offset is not above the size written for it, with grow and without.
C38_NodeBelowNumNodes ==
    (Distributed /\ walked.dist.numNodes > 0 /\ DistRequires) =>
        /\ walked.dist.posPair.first < walked.dist.numNodes
        /\ walked.dist.posPair.second <= WrittenSize(walked.dist.posPair.first)

\* C38: for numNodes > 0 and 0 <= position <= numElements distribute
\* returns, with grow, a node below numNodes and an offset that is not
\* above the size written for that node; without grow it does so for
\* position < numElements, the offset below the size written, and returns
\* (numNodes, 0), a node index past the last node, for position =
\* numElements.
C38_NodeOfPosition ==
    (Distributed /\ walked.dist.numNodes > 0 /\ DistRequires) =>
        IF walked.dist.grow
        THEN /\ walked.dist.posPair.first < walked.dist.numNodes
             /\ walked.dist.posPair.second
                    <= WrittenSize(walked.dist.posPair.first)
        ELSE IF walked.dist.position < walked.dist.numElements
        THEN /\ walked.dist.posPair.first < walked.dist.numNodes
             /\ walked.dist.posPair.second
                    < WrittenSize(walked.dist.posPair.first)
        ELSE walked.dist.posPair = IndexPair(walked.dist.numNodes, 0)

\* position = numElements with grow: the offset is the size written.
C38_Witness ==
    /\ Distributed
    /\ DistRequires
    /\ walked.dist.numNodes = 2
    /\ walked.dist.grow
    /\ walked.dist.numElements = 3
    /\ walked.dist.position = walked.dist.numElements
    /\ walked.dist.posPair.first = 1
    /\ walked.dist.posPair.second = WrittenSize(1)
    /\ WrittenSize(1) = 1

\* position = numElements without grow: no node is found.
C38_WitnessClear ==
    /\ Distributed
    /\ DistRequires
    /\ walked.dist.numNodes = 2
    /\ ~walked.dist.grow
    /\ walked.dist.numElements = 3
    /\ walked.dist.position = walked.dist.numElements
    /\ walked.dist.asserts
    /\ walked.dist.posPair = IndexPair(2, 0)

\* A call of moveRight or moveLeft that was made: the path it was called
\* on, the level, and the levels above it, root = 0.
MovedFrom == walked.move.from

MoveLevel == walked.move.level

Ancestors == 0..(MoveLevel - 1)

\* The entry of the path at level l, and the entries below the level of
\* the call, which no move touches.
EntryOf(path, l) == path[l + 1]

BelowLevel(path) == SubSeq(path, MoveLevel + 2, Len(path))

\* The path is at a slot of the tree at every level down to that of the
\* call.
AtSlots(path) ==
    /\ Len(path) > MoveLevel
    /\ \A l \in 0..MoveLevel : EntryOf(path, l).offset < EntryOf(path, l).size

\* The deepest ancestor that has a slot to its right, to its left.
CanGoRight == {l \in Ancestors : EntryOf(MovedFrom, l).offset # EntryOf(MovedFrom, l).size - 1}

CanGoLeft == {l \in Ancestors : EntryOf(MovedFrom, l).offset > 0}

\* The entries from the node down n levels through first children, through
\* last children.
RECURSIVE FirstAlong(_, _)
FirstAlong(node, n) ==
    IF n = 0 THEN <<>>
    ELSE <<EntryAt(node, 0)>> \o FirstAlong(NodeChildAt(node, 0), n - 1)

RECURSIVE LastAlong(_, _)
LastAlong(node, n) ==
    IF n = 0 THEN <<>>
    ELSE <<EntryAt(node, NodeSize(node) - 1)>>
             \o LastAlong(NodeChildAt(node, NodeSize(node) - 1), n - 1)

\* The path stepped to the right at the ancestor l and led down through
\* first children; stepped to the left and led down through last children.
RightAt(path, l) ==
    SubSeq(path, 1, l)
        \o <<[EntryOf(path, l) EXCEPT !.offset = @ + 1]>>
        \o FirstAlong(NodeChildAt(EntryOf(path, l).node, EntryOf(path, l).offset + 1),
                      MoveLevel - l)
        \o BelowLevel(path)

LeftAt(path, l) ==
    SubSeq(path, 1, l)
        \o <<[EntryOf(path, l) EXCEPT !.offset = @ - 1]>>
        \o LastAlong(NodeChildAt(EntryOf(path, l).node, EntryOf(path, l).offset - 1),
                     MoveLevel - l)
        \o BelowLevel(path)

\* The path to the last entry of the map.
LastEntryPath == LastAlong(map.root, map.height + 1)

\* moveRight on a valid path.
MovesRight ==
    (walked.op = "moveRight") =>
        IF CanGoRight = {}
        THEN walked.move.to
                 = [MovedFrom EXCEPT ![1].offset = MovedFrom[1].size]
        ELSE walked.move.to = RightAt(MovedFrom, Max(CanGoRight))

\* moveLeft on a valid path that has an ancestor to step left at, and on a
\* path in the end state.
MovesLeft ==
    (walked.op = "moveLeft") =>
        /\ (Path_valid(MovedFrom) /\ CanGoLeft # {}) =>
               walked.move.to = LeftAt(MovedFrom, Max(CanGoLeft))
        /\ (~Path_valid(MovedFrom) /\ MoveLevel = map.height) =>
               walked.move.to = LastEntryPath

\* C35 as the text has it: the two moves undo each other on every valid
\* path, moveLeft first on those that are not at the first entry.
C35_MovesUndoEachOther ==
    /\ MovesRight
    /\ MovesLeft
    /\ (walked.op = "moveRight" /\ AtSlots(MovedFrom)) =>
           walked.move.back = MovedFrom
    /\ (walked.op = "moveLeft" /\ AtSlots(MovedFrom)
            /\ \E l \in 0..MoveLevel : EntryOf(MovedFrom, l).offset > 0) =>
           walked.move.back = MovedFrom

\* C35: moveRight(level) on a valid path steps right at the deepest
\* ancestor, a level above level, whose offset is not its last slot, and
\* leads the path from there down to level through first children; if
\* there is none, as on the path to the last entry, it sets the root offset
\* to the root size and changes nothing else.  moveLeft(level) steps left
\* at the deepest ancestor with an offset above 0 and leads the path down
\* to level through last children; from the end state it comes to the last
\* entry.  The entry at level itself is not looked at and is set anew:
\* moveRight followed by moveLeft restores the valid paths whose entry at
\* level is at its last slot, moveLeft followed by moveRight those whose
\* entry at level is at offset 0 and that have an ancestor to step left at.
\* After moveRight on a path whose offset at level is behind the last slot,
\* as operator++ calls it, moveLeft leaves the path at the last slot.
C35_ClimbStepDescend ==
    /\ MovesRight
    /\ MovesLeft
    /\ (walked.op = "moveRight" /\ AtSlots(MovedFrom)) =>
           (walked.move.back = MovedFrom
                <=> EntryOf(MovedFrom, MoveLevel).offset
                        = EntryOf(MovedFrom, MoveLevel).size - 1)
    /\ (walked.op = "moveLeft" /\ AtSlots(MovedFrom) /\ CanGoLeft # {}) =>
           (walked.move.back = MovedFrom
                <=> EntryOf(MovedFrom, MoveLevel).offset = 0)
    /\ (walked.op = "moveRight" /\ Len(MovedFrom) > MoveLevel
            /\ EntryOf(MovedFrom, MoveLevel).offset
                    = EntryOf(MovedFrom, MoveLevel).size) =>
           walked.move.back
               = [MovedFrom EXCEPT ![MoveLevel + 1].offset = @ - 1]

\* In a map of height 2 a path at the last slot of its leaf and of the
\* branch above it moved right at the root, came to the first entry of the
\* next subtree, and moveLeft took it back.
C35_Witness ==
    /\ walked.op = "moveRight"
    /\ map.height = 2
    /\ MoveLevel = 2
    /\ AtSlots(MovedFrom)
    /\ CanGoRight = {0}
    /\ EntryOf(walked.move.to, 0).offset = EntryOf(MovedFrom, 0).offset + 1
    /\ EntryOf(walked.move.to, 1).offset = 0
    /\ EntryOf(walked.move.to, 2).offset = 0
    /\ Deref(walked.move.to) # NoEntry
    /\ walked.move.back = MovedFrom

\* From the last entry moveRight ends in the end state, and from the end
\* state moveLeft comes to the last entry.
C35_WitnessEnd ==
    /\ walked.op = "moveRight"
    /\ MovedFrom = LastEntryPath
    /\ ~Path_valid(walked.move.to)
    /\ walked.move.to[1].offset = walked.move.to[1].size
    /\ Tail(walked.move.to) = Tail(MovedFrom)
    /\ walked.move.back = LastEntryPath

\* A path at the first of the two entries of a leaf:
\* moveRight skips the second, and moveLeft comes back to the second.
C35_WitnessSkipped ==
    /\ walked.op = "moveRight"
    /\ AtSlots(MovedFrom)
    /\ MoveLevel = map.height
    /\ EntryOf(MovedFrom, MoveLevel).offset = 0
    /\ EntryOf(MovedFrom, MoveLevel).size = 2
    /\ Path_valid(walked.move.to)
    /\ walked.move.back = Stepped(MovedFrom, 1)

\* A call of a MacroParser that was made: the parser before and after it,
\* the token it returned, and whether the buffer was used up before it.
ParserCalled == last.op = "parser"

ParserBefore == last.call.parser.before

ParserAfter == last.call.parser.after

Exhausted == ParserBefore.idx > Len(ParserBefore.buf)

InBuffer == ParserBefore.buf[ParserBefore.idx]

InSource ==
    IF ParserBefore.stream = <<>> THEN EofTok ELSE Head(ParserBefore.stream)

SourceBehind ==
    IF ParserBefore.stream = <<>> THEN <<>> ELSE Tail(ParserBefore.stream)

\* next(): the token of the buffer, or the null token; the source is left
\* alone.
NextFromBuffer ==
    (ParserCalled /\ last.kind = "next") =>
        /\ ParserAfter.stream = ParserBefore.stream
        /\ ParserAfter.diags = ParserBefore.diags
        /\ IF Exhausted
           THEN last.directive = NullTok /\ ParserAfter = ParserBefore
           ELSE /\ last.directive = InBuffer
                /\ ParserAfter.idx = ParserBefore.idx + 1

\* peek(), consume() and expect(kind) while the buffer has a token.
BufferFirst ==
    (ParserCalled /\ ~Exhausted /\ last.kind # "next") =>
        /\ ParserAfter.stream = ParserBefore.stream
        /\ last.kind = "peek" =>
               last.directive = InBuffer /\ ParserAfter = ParserBefore
        /\ last.kind = "consume" =>
               /\ last.directive = InBuffer
               /\ ParserAfter = [ParserBefore EXCEPT !.idx = @ + 1]
        /\ last.kind = "expect" =>
               IF InBuffer.kind = last.call.expected[1]
               THEN /\ last.directive = InBuffer
                    /\ ParserAfter = [ParserBefore EXCEPT !.idx = @ + 1]
               ELSE /\ last.directive.kind = last.call.expected[1]
                    /\ last.directive.text = <<>>
                    /\ ParserAfter =
                           [ParserBefore EXCEPT
                               !.diags = Append(@, "ExpectedToken")]

\* peek(), consume() and expect(kind) behind the buffer.
SourceBehindBuffer ==
    (ParserCalled /\ Exhausted /\ last.kind # "next") =>
        /\ ParserAfter.idx = ParserBefore.idx
        /\ last.kind = "peek" =>
               last.directive = InSource /\ ParserAfter = ParserBefore
        /\ last.kind = "consume" =>
               /\ last.directive = InSource
               /\ ParserAfter = [ParserBefore EXCEPT !.stream = SourceBehind]
        /\ last.kind = "expect" =>
               IF InSource.kind = last.call.expected[1]
               THEN /\ last.directive = InSource
                    /\ ParserAfter = [ParserBefore EXCEPT !.stream = SourceBehind]
               ELSE /\ last.directive.kind = last.call.expected[1]
                    /\ last.directive.text = <<>>
                    /\ ParserAfter =
                           [ParserBefore EXCEPT
                               !.diags = Append(@, "ExpectedToken")]

\* The source tokens that a call took.
SourceTaken ==
    SubSeq(last.call.at.stream, 1, Len(last.call.at.stream) - Len(stream))

\* The buffer of expandReplacementList holds no directive token, or none
\* but its last token, which is the usage of a macro with formals that is
\* not being expanded.
PlainBuffer == \A k \in DOMAIN buffer : buffer[k].kind # "Directive"

EndsWithUsage ==
    /\ buffer # <<>>
    /\ \A k \in 1..(Len(buffer) - 1) : buffer[k].kind # "Directive"
    /\ isMacroUsage(Last(buffer))
    /\ valid(findMacro(Last(buffer)))
    /\ needsArgs(findMacro(Last(buffer)))
    /\ findMacro(Last(buffer)).syntax.name \notin last.call.entry

\* C39: a MacroParser reads its buffer first: next() returns the null
\* token behind the buffer and leaves the source alone, so that
\* expandReplacementList over a buffer without usages returns the buffer
\* and takes no source token; peek(), consume() and expect() read the
\* source behind the buffer, so that the arguments of a usage of a macro
\* with formals that ends the buffer are taken from the front of the
\* source, which loses them, from the opening to the closing parenthesis.
C39_BufferThenSource ==
    /\ NextFromBuffer
    /\ BufferFirst
    /\ SourceBehindBuffer
    /\ last.op = "list" =>
           /\ Len(stream) <= Len(last.call.at.stream)
           /\ last.call.at.stream = SourceTaken \o stream
           /\ PlainBuffer =>
                  /\ last.call.ret
                  /\ expandedTokens = buffer
                  /\ SourceTaken = <<>>
           /\ (EndsWithUsage /\ last.call.ret) =>
                  /\ SourceTaken # <<>>
                  /\ Head(SourceTaken).kind = "OpenParenthesis"
                  /\ Last(SourceTaken).kind = "CloseParenthesis"
           /\ (EndsWithUsage /\ ~last.call.ret /\ last.kind = "no") =>
                  Len(diagnostics) > Len(last.call.at.diags)

\* x `F before (2) z with `define F(y) y: the list comes to x 2 and the
\* source to z.
C39_Witness ==
    /\ last.op = "list"
    /\ last.call.ret
    /\ EndsWithUsage
    /\ Len(buffer) = 2
    /\ last.call.at.stream = <<LP, T(<<"2">>), RP, S(<<"z">>)>>
    /\ SourceTaken = <<LP, T(<<"2">>), RP>>
    /\ stream = <<S(<<"z">>)>>
    /\ Len(expandedTokens) = 2
    /\ expandedTokens[2].text = <<"2">>

\* Behind the buffer next() returned the null token; expect took the
\* opening parenthesis from the source.
C39_WitnessNext ==
    /\ ParserCalled
    /\ Exhausted
    /\ last.kind = "next"
    /\ ParserBefore.buf # <<>>
    /\ ParserBefore.stream # <<>>
    /\ last.directive = NullTok

C39_WitnessExpect ==
    /\ ParserCalled
    /\ Exhausted
    /\ last.kind = "expect"
    /\ last.directive = LP
    /\ Len(stream) = Len(last.call.at.stream) - 1

(***************************************************************************)
(* Properties of the interval map.                                         *)
(***************************************************************************)
Range(seq) == {seq[i] : i \in DOMAIN seq}

Reverse(seq) == [i \in DOMAIN seq |-> seq[Len(seq) + 1 - i]]

\* The stored entries that overlap the interval q.
Overlapping(q) == {e \in Range(inserted) : e.lo <= q.hi /\ e.hi >= q.lo}

\* The walk came to its end by itself and stands where end() stands.
AtEnd(w) == w.it # <<>> /\ IterEq(w.it, end(map))

\* Keys never decrease along seq, and equal keys come in the order of
\* their insertion.
SortedStable(seq) ==
    \A i, j \in DOMAIN seq :
        i < j => /\ ~KeyLess(seq[j], seq[i])
                 /\ (seq[i].lo = seq[j].lo /\ seq[i].hi = seq[j].hi)
                        => seq[i].val < seq[j].val

\* C5: the walk from find(ql, qh) to end() yields exactly the stored entries
\* with lo <= qh and hi >= ql, each of them once.
C5_FindRoundTrip ==
    walked.op = "find" =>
        /\ Range(walked.found.visited) = Overlapping(walked.q)
        /\ Len(walked.found.visited) = Cardinality(Overlapping(walked.q))
        /\ AtEnd(walked.found)

\* A lookup in a tree of height 2 that yields three entries and leaves some out.
C5_Witness ==
    /\ walked.op = "find"
    /\ map.height = 2
    /\ Len(walked.found.visited) >= 3
    /\ Overlapping(walked.q) # Range(inserted)

\* C6: the walk forward from begin() visits every stored entry once and ends
\* equal to end(); as many decrements from end() visit the same entries in
\* the reverse order and end at begin().
C6_ForwardBackward ==
    walked.op = "iterate" =>
        /\ Range(walked.forward.visited) = Range(inserted)
        /\ Len(walked.forward.visited) = Len(inserted)
        /\ AtEnd(walked.forward)
        /\ walked.backward.visited = Reverse(walked.forward.visited)
        /\ IterEq(walked.backward.it, begin(map))
        /\ walked.returned.visited = Reverse(walked.forward.visited)
        /\ IterEq(walked.returned.it, begin(map))

\* A traversal of five entries in a tree of height 2.
C6_Witness ==
    /\ walked.op = "iterate"
    /\ map.height = 2
    /\ Len(walked.forward.visited) = MaxInserts
    /\ Len(walked.backward.visited) = MaxInserts

\* C7: the entries of a forward walk, and of a walk from find(), come in
\* non-decreasing order of (lo, hi); an interval inserted again is kept next
\* to the stored one, the later insertion after the earlier one.
C7_SortedStable ==
    /\ walked.op = "iterate" =>
           /\ SortedStable(walked.forward.visited)
           /\ \A i \in DOMAIN inserted :
                  \E j \in DOMAIN walked.forward.visited :
                      walked.forward.visited[j] = inserted[i]
    /\ walked.op = "find" => SortedStable(walked.found.visited)

\* A traversal of a tree of height 3 that holds one interval three times,
\* inserted after a greater one and before a smaller one.
C7_Witness ==
    /\ walked.op = "iterate"
    /\ map.height = 3
    /\ \E i, j, k \in DOMAIN inserted :
           /\ i < j /\ j < k /\ k < Len(inserted)
           /\ inserted[i].lo = inserted[j].lo /\ inserted[i].hi = inserted[j].hi
           /\ inserted[k].lo = inserted[j].lo /\ inserted[k].hi = inserted[j].hi
           /\ KeyLess(inserted[i], inserted[1])
           /\ KeyLess(inserted[Len(inserted)], inserted[i])

\* C8: after every insert getBounds() is the least lo and the greatest hi of
\* the stored entries, wherever the entry with the greatest hi stands.
C8_GetBounds ==
    inserted # <<>> =>
        /\ \A e \in Range(inserted) :
               getBounds(map).lo <= e.lo /\ e.hi <= getBounds(map).hi
        /\ \E e \in Range(inserted) : e.lo = getBounds(map).lo
        /\ \E e \in Range(inserted) : e.hi = getBounds(map).hi

\* In a tree of height 2 the greatest hi is that of the first entry only.
C8_Witness ==
    /\ walked.op = "insert"
    /\ map.height = 2
    /\ \E e \in Range(inserted) :
           /\ e.hi = getBounds(map).hi
           /\ \A x \in Range(inserted) \ {e} : KeyLess(e, x) /\ x.hi < e.hi

=============================================================================
